---------------------------- MODULE Spec2Model ----------------------------
(***************************************************************************)
(* A model of ommp, a terminal audio player: the application reducer       *)
(* (src/app/mod.rs), the event loop that feeds it (src/main.rs), the key   *)
(* handling that turns input into reducer actions (src/app/handler.rs),    *)
(* the library snapshot and its search (src/library/mod.rs) and the        *)
(* playback worker (src/audio/player.rs).                                  *)
(*                                                                         *)
(* Conventions.  Vec indices are 0-based as in the source; TLA+ sequences  *)
(* are 1-based, so element i of a Vec v is v[i + 1].  Option<T> is a       *)
(* sequence of length 0 (None) or 1 (Some).  A track is identified by its  *)
(* path (a number in Paths); a library snapshot is a sequence of distinct  *)
(* paths, and the tags of a track are operators of its path.  Seconds are  *)
(* integers.  A Rust panic (an out-of-bounds index) sets panicked, after   *)
(* which the process takes no further step.                                *)
(*                                                                         *)
(* Specifications.  SpecRemap applies App::replace_library once to any     *)
(* App state.  Spec is the event loop with the library, queue, playlist    *)
(* and search-modal events.  SpecPlay is the event loop over a fixed       *)
(* library with the playback keys, seeks and audio events.  SpecNav        *)
(* applies play_next or play_prev once to any queue and playback mode.     *)
(* SpecZero empties the library and then applies any action.  SpecWorker   *)
(* is the playback thread under any sequence of commands and ticks.        *)
(* SpecDecode applies open_and_play once to any file.  SpecSystem runs the *)
(* reducer and the playback thread together, joined by the command channel *)
(* and the event bus.  SpecRestart is one run from start to exit over the  *)
(* saved state file.  SpecWatch is the startup scan, LibrarySync and the   *)
(* watcher's debounce thread on a clock of tenths of a second.  SpecFail   *)
(* plays a queue of files none of which can be opened.  SpecQueue is the   *)
(* event loop with every key and event that edits the queue or moves its   *)
(* current entry.  SpecOnce applies RemoveFromQueue or PauseResume once to *)
(* any queue and play state.                                               *)
(*                                                                         *)
(* Left out.  The focused pane and the tab are not state: a pane key is    *)
(* enabled whenever no modal or chord intercepts it.  The help and about   *)
(* modals, resize mode, the mouse and the volume keys are not modelled.    *)
(* Tracks carry a title, an album and a duration; artist, genre and file   *)
(* name never match a query.  Floating-point seconds and volume are        *)
(* integers (seconds, hundredths).                                         *)
(***************************************************************************)
EXTENDS Integers, Sequences, FiniteSets, TLC

VARIABLES
    library,     \* App.library.tracks: the current snapshot
    queue,       \* App.queue: tracks, current_index, selected_index, scroll_offset
    playlists,   \* App.playlists: sequence of [name, tracks]
    search,      \* App.search_query / App.search_results
    playback,    \* App.playback: state, position_secs, duration_secs, volume, shuffle, repeat
    flags,       \* App.should_quit, sync_state, initial_scan_complete, track_just_changed
    ui,          \* Ui: the search modal, the playlist modal, the chord flag, the queue pane scroll
    sent,        \* commands handed to AudioEngine::send by the last reducer step
    worker,      \* the playback thread: where it is, its clock, its sink
    panicked,    \* the process died of a panic
    bus,         \* the command channel to the thread and the thread's events on the event bus
    disk,        \* the saved state file and the music directory
    watcher,     \* the watcher's debounce thread and the scans in progress
    hist         \* the last step: its kind, its argument and the state it started from

vars ==
    <<library, queue, playlists, search, playback, flags, ui, sent, worker, panicked, bus,
      disk, watcher, hist>>

\* what the reducer and the interface own
appVars == <<library, queue, playlists, search, playback, flags, ui, sent, panicked>>

---------------------------------------------------------------------------
(* Bounds of the model *)

NPaths == 3          \* number of distinct file paths that can exist on disk
MaxQueue == 2        \* longest queue drawn as an input of the remap
MaxPl == 2           \* longest playlist drawn as an input of the remap

Paths == 1..NPaths

---------------------------------------------------------------------------
(* Option and Vec helpers *)

None == <<>>
Some(v) == <<v>>
IsSome(o) == o # <<>>
Unwrap(o) == o[1]

Min(a, b) == IF a < b THEN a ELSE b
Max(a, b) == IF a > b THEN a ELSE b
SatSub(a, b) == IF a > b THEN a - b ELSE 0

\* Vec::get(i)
Get(v, i) == IF i >= 0 /\ i < Len(v) THEN Some(v[i + 1]) ELSE None

\* Iterator::position: the first index whose element satisfies the test
Position(v, x) ==
    LET S == {i \in 0..(Len(v) - 1) : v[i + 1] = x}
    IN  IF S = {} THEN None ELSE Some(CHOOSE i \in S : \A j \in S : i <= j)

\* all sequences over S of length at most n
SeqsUpTo(S, n) == UNION {[1..k -> S] : k \in 0..n}

\* library snapshots: sequences of distinct paths
Snapshots == {s \in SeqsUpTo(Paths, NPaths) : \A i, j \in DOMAIN s : i # j => s[i] # s[j]}

\* the snapshot <<1, ..., n>>
IdSnapshot(n) == [i \in 1..n |-> i]

\* track indices stored by the UI and the reducer; NPaths is out of range of every snapshot
Indices == 0..NPaths

PathSet(lib) == {lib[i] : i \in DOMAIN lib}

---------------------------------------------------------------------------
(* Tags of a track, decided by its path *)

\* Track.title, as a sequence of characters
Title(p) == IF p = 1 THEN <<"a">> ELSE IF p = 2 THEN <<"a", "b">> ELSE <<"b">>

\* Track.album
Album(p) == IF p <= 2 THEN "x" ELSE "y"

\* Track.duration in whole seconds
TrackDuration(p) == IF p = 1 THEN 4 ELSE IF p = 2 THEN 12 ELSE 0

---------------------------------------------------------------------------
(* Library::search *)

Lower(c) == IF c = "A" THEN "a" ELSE IF c = "B" THEN "b" ELSE c
ToLowercase(s) == [i \in DOMAIN s |-> Lower(s[i])]

\* str::contains on character sequences
Contains(hay, needle) ==
    \E k \in 0..(Len(hay) - Len(needle)) :
        \A i \in 1..Len(needle) : hay[k + i] = needle[i]

\* the elements of a set of indices in ascending order (iter().enumerate().filter().collect())
RECURSIVE Ascending(_)
Ascending(S) ==
    IF S = {} THEN <<>>
    ELSE LET m == CHOOSE i \in S : \A j \in S : i <= j
         IN  <<m>> \o Ascending(S \ {m})

\* The general search of Library::search.  The characters typed in the model
\* are letters, so the "*." and "field:" branches are never taken.
Search(lib, query) ==
    IF query = <<>> THEN <<>>
    ELSE Ascending({i \in 0..(Len(lib) - 1) :
                      \/ Contains(ToLowercase(Title(lib[i + 1])), ToLowercase(query))
                      \/ Contains(<<Album(lib[i + 1])>>, ToLowercase(query))})

Matches(p, query) ==
    Contains(ToLowercase(Title(p)), ToLowercase(query)) \/ Contains(<<Album(p)>>, ToLowercase(query))

---------------------------------------------------------------------------
(* App::replace_library: the remap by path identity *)

\* path_map.get(p): HashMap built by collect(), a later duplicate overwrites an earlier one
PathMapGet(new_lib, p) ==
    LET S == {i \in 0..(Len(new_lib) - 1) : new_lib[i + 1] = p}
    IN  IF S = {} THEN None ELSE Some(CHOOSE i \in S : \A j \in S : i >= j)

\* old index -> path in the old snapshot -> index in the new snapshot
RemapIndex(old_idx, old_lib, new_lib) ==
    IF IsSome(Get(old_lib, old_idx))
    THEN PathMapGet(new_lib, Unwrap(Get(old_lib, old_idx)))
    ELSE None

\* variant: entries whose path survives keep their old index
RemapTracks_NoRewrite(tracks, old_lib, new_lib) ==
    SelectSeq(tracks, LAMBDA t : IsSome(RemapIndex(t, old_lib, new_lib)))

\* variant: the new indices are collected into an ordered set
RemapTracks_Sorted(tracks, old_lib, new_lib) ==
    Ascending({Unwrap(RemapIndex(tracks[j], old_lib, new_lib)) :
                 j \in {k \in DOMAIN tracks : IsSome(RemapIndex(tracks[k], old_lib, new_lib))}})

\* the filter_map over a Vec of old indices
RemapTracks(tracks, old_lib, new_lib) ==
    LET kept == SelectSeq(tracks, LAMBDA t : IsSome(RemapIndex(t, old_lib, new_lib)))
    IN  [j \in 1..Len(kept) |-> Unwrap(RemapIndex(kept[j], old_lib, new_lib))]

\* the track index of the current queue entry: current_index.and_then(tracks.get)
CurrentTrackIndex(q) ==
    IF IsSome(q.current_index) THEN Get(q.tracks, Unwrap(q.current_index)) ELSE None

\* the path of the currently playing track, captured before the remap
PlayingPath(q, lib) ==
    IF IsSome(CurrentTrackIndex(q)) THEN Get(lib, Unwrap(CurrentTrackIndex(q))) ELSE None

\* variant: the old position is kept, clamped to the rewritten queue
NewCurrent_Clamp(q, old_lib, new_lib, new_queue_tracks) ==
    IF IsSome(q.current_index) /\ new_queue_tracks # <<>>
    THEN Some(Min(Unwrap(q.current_index), Len(new_queue_tracks) - 1))
    ELSE None

\* variant: the rewritten queue is searched for the old track index
NewCurrent_StaleIndex(q, old_lib, new_lib, new_queue_tracks) ==
    IF IsSome(PlayingPath(q, old_lib)) /\ IsSome(PathMapGet(new_lib, Unwrap(PlayingPath(q, old_lib))))
    THEN Position(new_queue_tracks, Unwrap(CurrentTrackIndex(q)))
    ELSE None

\* the position, in the rewritten queue, of the captured playing path
NewCurrent(q, old_lib, new_lib, new_queue_tracks) ==
    IF IsSome(PlayingPath(q, old_lib)) /\ IsSome(PathMapGet(new_lib, Unwrap(PlayingPath(q, old_lib))))
    THEN Position(new_queue_tracks, Unwrap(PathMapGet(new_lib, Unwrap(PlayingPath(q, old_lib)))))
    ELSE None

\* variant: playlists left without tracks are removed
RemapPlaylists_DropEmpty(pls, old_lib, new_lib) ==
    SelectSeq([i \in DOMAIN pls |-> [pls[i] EXCEPT !.tracks = RemapTracks(@, old_lib, new_lib)]],
              LAMBDA pl : pl.tracks # <<>>)

\* the loop over self.playlists
RemapPlaylists(pls, old_lib, new_lib) ==
    [i \in DOMAIN pls |-> [pls[i] EXCEPT !.tracks = RemapTracks(@, old_lib, new_lib)]]

\* replace_library that also stops the worker when the playing path is gone
replace_library_StopWhenGone(a, new_lib) ==
    LET new_queue_tracks == RemapTracks(a.queue.tracks, a.library, new_lib)
        new_current == NewCurrent(a.queue, a.library, new_lib, new_queue_tracks)
        gone == IsSome(PlayingPath(a.queue, a.library)) /\ new_current = None
    IN  [a EXCEPT
           !.queue = [tracks |-> new_queue_tracks,
                      current_index |-> new_current,
                      selected_index |-> Min(a.queue.selected_index, SatSub(Len(new_queue_tracks), 1)),
                      scroll_offset |-> Min(a.queue.scroll_offset, SatSub(Len(new_queue_tracks), 1))],
           !.playlists = RemapPlaylists(a.playlists, a.library, new_lib),
           !.library = new_lib,
           !.playback = IF gone THEN [@ EXCEPT !.state = "Stopped", !.position_secs = 0] ELSE @,
           !.sent = IF gone THEN Append(@, [cmd |-> "Stop", arg |-> 0]) ELSE @,
           !.flags = [a.flags EXCEPT !.sync_state = "Idle"]]

\* App::replace_library on the App value a
replace_library(a, new_lib) ==
    LET new_queue_tracks == RemapTracks(a.queue.tracks, a.library, new_lib)
        new_current == NewCurrent(a.queue, a.library, new_lib, new_queue_tracks)
    IN  [a EXCEPT
           !.queue = [tracks |-> new_queue_tracks,
                      current_index |-> new_current,
                      selected_index |-> Min(a.queue.selected_index, SatSub(Len(new_queue_tracks), 1)),
                      scroll_offset |-> Min(a.queue.scroll_offset, SatSub(Len(new_queue_tracks), 1))],
           !.playlists = RemapPlaylists(a.playlists, a.library, new_lib),
           !.search = IF a.search.query # <<>>
                      THEN [a.search EXCEPT !.results = Search(new_lib, a.search.query)]
                      ELSE a.search,
           !.library = new_lib,
           !.flags = [a.flags EXCEPT !.sync_state = "Idle"]]

---------------------------------------------------------------------------
(* Initial values of App::new and Ui::new *)

Playlist(name) == [name |-> name, tracks |-> <<>>]

QueueDefault == [tracks |-> <<>>, current_index |-> None, selected_index |-> 0, scroll_offset |-> 0]

\* PlaybackState::default; volume is kept in hundredths
PlaybackDefault ==
    [state |-> "Stopped", position_secs |-> 0, duration_secs |-> 0,
     volume |-> 80, shuffle |-> FALSE, repeat |-> "Off"]

\* a track being played, with every setting away from its default
PlaybackBusy ==
    [state |-> "Playing", position_secs |-> 3, duration_secs |-> 12,
     volume |-> 55, shuffle |-> TRUE, repeat |-> "One"]

SearchDefault == [query |-> <<>>, results |-> <<>>]

FlagsDefault == [should_quit |-> FALSE, sync_state |-> "Idle", initial_scan_complete |-> FALSE,
                 track_just_changed |-> FALSE, watcher |-> FALSE]

UiDefault ==
    [show_search_modal |-> FALSE, search_modal_input |-> <<>>, search_modal_results |-> <<>>,
     search_modal_selected |-> 0, search_modal_scroll |-> 0, chord_pending |-> FALSE,
     show_playlist_modal |-> FALSE, playlist_modal_selected |-> 0, queue_pane_scroll |-> 0]

\* the App value held in the variables, with nothing sent yet in this step
AppState ==
    [library |-> library, queue |-> queue, playlists |-> playlists, search |-> search,
     playback |-> playback, flags |-> flags, sent |-> <<>>, panicked |-> FALSE]

\* player_thread before the first command: no sink, waiting in the outer loop;
\* now is the thread's monotonic clock, volume is the sink's, in hundredths
WorkerDefault ==
    [mode |-> "Idle", is_paused |-> FALSE, play_start |-> None, accumulated_secs |-> 0,
     duration |-> 0, volume |-> 100, now |-> 0]

\* both channels empty; plays counts the Play commands sent so far, loaded is the number
\* of the Play whose track the sink holds (0 for none)
BusDefault == [cmd_rx |-> <<>>, event_rx |-> <<>>, plays |-> 0, loaded |-> 0]

\* no state file and an empty music directory.  state_json is what persist::load would
\* return; previous is the file as the last run left it, music the files of the music
\* directory, edited the names of the playlists the user has changed in this run
DiskDefault == [state_json |-> None, previous |-> None, music |-> <<>>, edited |-> {}]

\* before spawn_watcher: no debounce thread.  Times are in tenths of a second: now is
\* the clock, last_event the thread's variable, wait_from the start of its recv_timeout,
\* scan_end the end of its Library::scan; notify_rx counts the queued watch events,
\* event_tx the LibraryReady events on the bus, sync_threads the scan threads spawned by
\* LibrarySync, startup is 1 while the startup scan runs; last_fs is the time of the
\* last watch event and rescans counts the rescans the thread has started since then
WatcherDefault ==
    [pc |-> "Off", now |-> 0, last_event |-> 0, wait_from |-> 0, scan_end |-> 0,
     notify_rx |-> 0, event_tx |-> 0, sync_threads |-> 0, startup |-> 1,
     last_fs |-> None, rescans |-> 0]

\* watcher.rs, spawn_watcher: the startup scan has been joined and the debounce thread
\* starts with last_event at the present
spawn_watcher(w) ==
    [w EXCEPT !.pc = "Recv", !.startup = 0, !.last_event = w.now, !.wait_from = w.now]

HistInit == [kind |-> "init", arg |-> 0, library |-> <<>>, queue |-> QueueDefault,
             playlists |-> <<>>, playback |-> PlaybackDefault,
             prev_pos |-> None, last_pos |-> None, resumed |-> FALSE,
             cmd |-> "none", before |-> WorkerDefault, after_stop |-> FALSE,
             paused_at |-> None, resumed_at |-> None, opened |-> None]

\* what a step of the event loop leaves in hist: the kind of event; for a seek also the
\* requested value and the playback state it started from
Note(kind, arg) ==
    IF kind \in {"Seek", "SeekForward", "SeekBackward"}
    THEN [HistInit EXCEPT !.kind = kind, !.arg = arg, !.playback = playback]
    ELSE [HistInit EXCEPT !.kind = kind]

\* what the remap on its own leaves in hist: the App state it started from
Record(kind) == [HistInit EXCEPT !.kind = kind, !.library = library, !.queue = queue,
                                 !.playlists = playlists, !.playback = playback]

---------------------------------------------------------------------------
(* The remap on its own: replace_library applied once to any App state *)

InitRemap ==
    /\ library \in {IdSnapshot(n) : n \in 0..NPaths}
    /\ \/ /\ queue \in {[QueueDefault EXCEPT !.tracks = t, !.current_index = c] :
                          t \in SeqsUpTo(Indices, MaxQueue),
                          c \in {None} \cup {Some(i) : i \in 0..(MaxQueue - 1)}}
          /\ playlists = <<Playlist("Bookmarks")>>
          /\ playback \in {PlaybackDefault, PlaybackBusy}
       \/ /\ queue = QueueDefault
          /\ playlists \in {<<[name |-> "Bookmarks", tracks |-> x], [name |-> "Mix", tracks |-> y]>> :
                              x \in SeqsUpTo(Indices, MaxPl), y \in {<<>>, <<0>>, <<NPaths>>}}
          /\ playback = PlaybackDefault
    /\ search = SearchDefault
    /\ flags = [FlagsDefault EXCEPT !.initial_scan_complete = TRUE, !.watcher = TRUE]
    /\ ui = UiDefault
    /\ sent = <<>>
    /\ worker = WorkerDefault
    /\ panicked = FALSE
    /\ bus = BusDefault
    /\ disk = DiskDefault
    /\ watcher = WatcherDefault
    /\ hist = HistInit

Remap(new_lib) ==
    /\ hist.kind = "init"
    /\ LET a == replace_library(AppState, new_lib)
       IN  /\ library' = a.library
           /\ queue' = a.queue
           /\ playlists' = a.playlists
           /\ search' = a.search
           /\ playback' = a.playback
           /\ flags' = a.flags
           /\ sent' = a.sent
    /\ hist' = Record("LibraryReady")
    /\ UNCHANGED <<ui, worker, panicked, bus, disk, watcher>>

NextRemap == \E new_lib \in Snapshots : Remap(new_lib)

SpecRemap == InitRemap /\ [][NextRemap]_vars

---------------------------------------------------------------------------
(* App::handle_action: one operator per AppAction, from App value to App value *)

Cmd(c, x) == [cmd |-> c, arg |-> x]

\* AudioEngine::send: the command goes onto the worker's channel
Send(a, c) == [a EXCEPT !.sent = Append(@, c)]

\* an index out of bounds: the thread panics and the process ends
Panic(a) == [a EXCEPT !.panicked = TRUE]

\* library.tracks[track_idx] read without a check, then Play(path) and the playback fields
StartTrack(a, track_idx, set_playing) ==
    IF track_idx >= Len(a.library)
    THEN Panic(a)
    ELSE [Send(a, Cmd("Play", a.library[track_idx + 1])) EXCEPT
            !.playback.state = IF set_playing THEN "Playing" ELSE @,
            !.playback.position_secs = 0,
            !.playback.duration_secs = TrackDuration(a.library[track_idx + 1]),
            !.flags.track_just_changed = TRUE]

\* queue.tracks[idx] read without a check, then the track is started
StartQueueSlot(a, idx, set_playing) ==
    IF idx >= Len(a.queue.tracks)
    THEN Panic(a)
    ELSE StartTrack(a, a.queue.tracks[idx + 1], set_playing)

Quit(a) == Send([a EXCEPT !.flags.should_quit = TRUE], Cmd("Stop", 0))

\* PlayTrack without its bounds check
PlayTrack_Unchecked(a, track_idx) == StartTrack(a, track_idx, TRUE)

PlayTrack(a, track_idx) ==
    IF track_idx < Len(a.library) THEN StartTrack(a, track_idx, TRUE) ELSE a

\* PauseResume that, when stopped, starts the first entry of the queue
PauseResume_FromTop(a) ==
    CASE a.playback.state = "Playing" -> [Send(a, Cmd("Pause", 0)) EXCEPT !.playback.state = "Paused"]
      [] a.playback.state = "Paused" -> [Send(a, Cmd("Resume", 0)) EXCEPT !.playback.state = "Playing"]
      [] OTHER -> IF a.queue.tracks # <<>>
                  THEN PlayTrack(a, a.queue.tracks[1])
                  ELSE a

PauseResume(a) ==
    CASE a.playback.state = "Playing" -> [Send(a, Cmd("Pause", 0)) EXCEPT !.playback.state = "Paused"]
      [] a.playback.state = "Paused" -> [Send(a, Cmd("Resume", 0)) EXCEPT !.playback.state = "Playing"]
      [] OTHER -> IF IsSome(CurrentTrackIndex(a.queue))
                  THEN PlayTrack(a, Unwrap(CurrentTrackIndex(a.queue)))
                  ELSE a

\* play_next with Repeat-One treated like the other modes
play_next_AdvanceOnRepeatOne(a, rnd) ==
    IF a.queue.tracks = <<>> THEN a
    ELSE LET len == Len(a.queue.tracks)
             next == IF a.playback.shuffle THEN Some(rnd)
                     ELSE IF IsSome(a.queue.current_index)
                     THEN IF Unwrap(a.queue.current_index) + 1 < len
                          THEN Some(Unwrap(a.queue.current_index) + 1)
                          ELSE IF a.playback.repeat = "All" THEN Some(0) ELSE None
                     ELSE Some(0)
         IN  IF IsSome(next)
             THEN StartQueueSlot([a EXCEPT !.queue.current_index = next], Unwrap(next), TRUE)
             ELSE [a EXCEPT !.playback.state = "Stopped", !.playback.position_secs = 0]

\* play_next that wraps at the end of the queue whatever the repeat mode
play_next_WrapAlways(a, rnd) ==
    IF a.queue.tracks = <<>> THEN a
    ELSE IF a.playback.repeat = "One"
    THEN IF IsSome(a.queue.current_index)
         THEN StartQueueSlot(a, Unwrap(a.queue.current_index), TRUE)
         ELSE a
    ELSE LET len == Len(a.queue.tracks)
             next == IF a.playback.shuffle THEN Some(rnd)
                     ELSE IF IsSome(a.queue.current_index)
                     THEN Some((Unwrap(a.queue.current_index) + 1) % len)
                     ELSE Some(0)
         IN  StartQueueSlot([a EXCEPT !.queue.current_index = next], Unwrap(next), TRUE)

\* play_next whose draw never lands on the current position: it moves on by one instead
play_next_ShuffleAvoidsCurrent(a, rnd) ==
    IF a.queue.tracks = <<>> THEN a
    ELSE IF a.playback.repeat = "One"
    THEN IF IsSome(a.queue.current_index)
         THEN StartQueueSlot(a, Unwrap(a.queue.current_index), TRUE)
         ELSE a
    ELSE LET len == Len(a.queue.tracks)
             next == IF a.playback.shuffle
                     THEN IF a.queue.current_index = Some(rnd) THEN Some((rnd + 1) % len) ELSE Some(rnd)
                     ELSE IF IsSome(a.queue.current_index)
                     THEN IF Unwrap(a.queue.current_index) + 1 < len
                          THEN Some(Unwrap(a.queue.current_index) + 1)
                          ELSE IF a.playback.repeat = "All" THEN Some(0) ELSE None
                     ELSE Some(0)
         IN  IF IsSome(next)
             THEN StartQueueSlot([a EXCEPT !.queue.current_index = next], Unwrap(next), TRUE)
             ELSE [a EXCEPT !.playback.state = "Stopped", !.playback.position_secs = 0]

\* rnd is the value rng.gen_range(0..len) returns when shuffle is on
play_next(a, rnd) ==
    IF a.queue.tracks = <<>> THEN a
    ELSE IF a.playback.repeat = "One"
    THEN IF IsSome(a.queue.current_index)
         THEN StartQueueSlot(a, Unwrap(a.queue.current_index), TRUE)
         ELSE a
    ELSE LET len == Len(a.queue.tracks)
             next == IF a.playback.shuffle THEN Some(rnd)
                     ELSE IF IsSome(a.queue.current_index)
                     THEN IF Unwrap(a.queue.current_index) + 1 < len
                          THEN Some(Unwrap(a.queue.current_index) + 1)
                          ELSE IF a.playback.repeat = "All" THEN Some(0) ELSE None
                     ELSE Some(0)
         IN  IF IsSome(next)
             THEN StartQueueSlot([a EXCEPT !.queue.current_index = next], Unwrap(next), TRUE)
             ELSE [a EXCEPT !.playback.state = "Stopped", !.playback.position_secs = 0]

\* play_prev that restarts the current track from the three-second mark on
play_prev_RestartAtThree(a) ==
    IF a.queue.tracks = <<>> THEN a
    ELSE IF a.playback.position_secs >= 3 /\ IsSome(a.queue.current_index)
    THEN StartQueueSlot(a, Unwrap(a.queue.current_index), FALSE)
    ELSE LET prev == IF IsSome(a.queue.current_index)
                     THEN IF Unwrap(a.queue.current_index) > 0
                          THEN Unwrap(a.queue.current_index) - 1
                          ELSE IF a.playback.repeat = "All" THEN Len(a.queue.tracks) - 1 ELSE 0
                     ELSE 0
         IN  StartQueueSlot([a EXCEPT !.queue.current_index = Some(prev)], prev, TRUE)

play_prev(a) ==
    IF a.queue.tracks = <<>> THEN a
    ELSE IF a.playback.position_secs > 3 /\ IsSome(a.queue.current_index)
    THEN StartQueueSlot(a, Unwrap(a.queue.current_index), FALSE)
    ELSE LET prev == IF IsSome(a.queue.current_index)
                     THEN IF Unwrap(a.queue.current_index) > 0
                          THEN Unwrap(a.queue.current_index) - 1
                          ELSE IF a.playback.repeat = "All" THEN Len(a.queue.tracks) - 1 ELSE 0
                     ELSE 0
         IN  StartQueueSlot([a EXCEPT !.queue.current_index = Some(prev)], prev, TRUE)

\* volume in hundredths: vol.clamp(0.0, 1.0)
SetVolume(a, vol) ==
    LET v == Max(0, Min(vol, 100))
    IN  Send([a EXCEPT !.playback.volume = v], Cmd("SetVolume", v))

\* secs.clamp(0.0, duration_secs) with the lower bound left out
Clamp_NoLowerBound(secs, lo, hi) == IF secs > hi THEN hi ELSE secs

\* f64::clamp(lo, hi): panics when lo > hi
Clamp(secs, lo, hi) == IF secs < lo THEN lo ELSE IF secs > hi THEN hi ELSE secs

Seek(a, secs) ==
    IF a.playback.duration_secs < 0
    THEN Panic(a)
    ELSE LET clamped == Clamp(secs, 0, a.playback.duration_secs)
         IN  [Send(a, Cmd("Seek", clamped)) EXCEPT !.playback.position_secs = clamped]

SeekForward(a) == Seek(a, a.playback.position_secs + 5)

SeekBackward(a) == Seek(a, a.playback.position_secs - 5)

ToggleShuffle(a) == [a EXCEPT !.playback.shuffle = ~@]

\* RepeatMode::next
CycleRepeat(a) ==
    [a EXCEPT !.playback.repeat = CASE @ = "Off" -> "All" [] @ = "All" -> "One" [] OTHER -> "Off"]

AddToQueue(a, track_indices) ==
    [a EXCEPT !.queue = [tracks |-> track_indices,
                         current_index |-> IF track_indices = <<>> THEN None ELSE Some(0),
                         selected_index |-> 0,
                         scroll_offset |-> 0]]

ClearQueue(a) == [a EXCEPT !.queue = QueueDefault]

\* Vec::swap_remove(idx): the last element takes the place of the removed one
Remove_Swap(v, idx) == [j \in 1..(Len(v) - 1) |-> IF j = idx + 1 THEN v[Len(v)] ELSE v[j]]

\* Vec::remove(idx)
Remove(v, idx) == [j \in 1..(Len(v) - 1) |-> IF j <= idx THEN v[j] ELSE v[j + 1]]

\* RemoveFromQueue that only shifts the current index down past a removed earlier entry
RemoveFromQueue_NoClamp(a, idx) ==
    IF idx < Len(a.queue.tracks)
    THEN LET rest == Remove(a.queue.tracks, idx)
             ci == a.queue.current_index
         IN  [a EXCEPT !.queue.tracks = rest,
                       !.queue.current_index =
                           IF rest = <<>> THEN None
                           ELSE IF IsSome(ci) /\ idx < Unwrap(ci) THEN Some(Unwrap(ci) - 1)
                           ELSE ci]
    ELSE a

RemoveFromQueue(a, idx) ==
    IF idx < Len(a.queue.tracks)
    THEN LET rest == Remove(a.queue.tracks, idx)
             ci == a.queue.current_index
         IN  [a EXCEPT !.queue.tracks = rest,
                       !.queue.current_index =
                           IF rest = <<>> THEN None
                           ELSE IF IsSome(ci)
                           THEN IF idx < Unwrap(ci) THEN Some(Unwrap(ci) - 1)
                                ELSE IF idx = Unwrap(ci) /\ Unwrap(ci) >= Len(rest)
                                THEN Some(Len(rest) - 1)
                                ELSE ci
                           ELSE ci]
    ELSE a

PlayQueueIndex(a, idx) ==
    IF idx < Len(a.queue.tracks)
    THEN PlayTrack([a EXCEPT !.queue.current_index = Some(idx)], a.queue.tracks[idx + 1])
    ELSE a

\* UpdatePosition that also marks the playback as running
UpdatePosition_MarksPlaying(a, position_secs, duration_secs) ==
    [a EXCEPT !.playback.position_secs = position_secs,
              !.playback.duration_secs = IF duration_secs > 0 THEN duration_secs ELSE @,
              !.playback.state = "Playing"]

UpdatePosition(a, position_secs, duration_secs) ==
    [a EXCEPT !.playback.position_secs = position_secs,
              !.playback.duration_secs = IF duration_secs > 0 THEN duration_secs ELSE @]

SetQueueSelection(a, idx) ==
    IF idx < Len(a.queue.tracks) THEN [a EXCEPT !.queue.selected_index = idx] ELSE a

AddToPlaylist(a, playlist_idx, track_idx) ==
    IF playlist_idx < Len(a.playlists) /\ ~IsSome(Position(a.playlists[playlist_idx + 1].tracks, track_idx))
    THEN [a EXCEPT !.playlists[playlist_idx + 1].tracks = Append(@, track_idx)]
    ELSE a

RemoveFromPlaylist(a, playlist_idx, track_idx) ==
    IF playlist_idx < Len(a.playlists)
    THEN [a EXCEPT !.playlists[playlist_idx + 1].tracks = SelectSeq(@, LAMBDA t : t # track_idx)]
    ELSE a

\* handler::update_queue_selection: j / k with the queue pane focused
update_queue_selection(a, down) ==
    IF a.queue.tracks = <<>> THEN a
    ELSE IF down
    THEN IF a.queue.selected_index < Len(a.queue.tracks) - 1
         THEN [a EXCEPT !.queue.selected_index = @ + 1] ELSE a
    ELSE IF a.queue.selected_index > 0
         THEN [a EXCEPT !.queue.selected_index = @ - 1] ELSE a

\* Library::get_tracks_by_album
get_tracks_by_album(lib, album) == Ascending({i \in 0..(Len(lib) - 1) : Album(lib[i + 1]) = album})

\* Library::path_to_index
path_to_index(lib, p) == Position(lib, p)

---------------------------------------------------------------------------
(* Rendering: Ui::render reads App after every event *)

\* rows the queue pane shows
QueueRows == 2

\* rows the search modal shows
ModalRows == 1

\* the indices skip(scroll).take(rows) walks over
Visible(v, scroll, rows) == {i \in 0..(Len(v) - 1) : i >= scroll /\ i < scroll + rows}

\* QueuePane::render: auto-scroll to the selection
QueueScroll(a, u) ==
    LET s1 == IF a.queue.tracks # <<>> /\ a.queue.selected_index < u.queue_pane_scroll
              THEN a.queue.selected_index ELSE u.queue_pane_scroll
    IN  IF a.queue.tracks # <<>> /\ QueueRows > 0 /\ a.queue.selected_index >= s1 + QueueRows
        THEN a.queue.selected_index - QueueRows + 1
        ELSE s1

\* Ui::render: the queue pane and the search modal read library.tracks[track_idx]
\* for each visible row, unchecked
Render(a, u) ==
    LET scroll == QueueScroll(a, u)
        queue_bad == \E i \in Visible(a.queue.tracks, scroll, QueueRows) :
                        a.queue.tracks[i + 1] >= Len(a.library)
        modal_bad == /\ u.show_search_modal
                     /\ \E i \in Visible(u.search_modal_results, u.search_modal_scroll, ModalRows) :
                           u.search_modal_results[i + 1] >= Len(a.library)
    IN  [ui |-> [u EXCEPT !.queue_pane_scroll = scroll], panic |-> queue_bad \/ modal_bad]

\* Ui::clamp_selections: the part that touches modelled state
clamp_selections(u, a) ==
    [u EXCEPT !.queue_pane_scroll = IF a.queue.tracks = <<>> THEN 0
                                    ELSE Min(@, Len(a.queue.tracks) - 1)]

\* main.rs, "Save state on exit": the settings, and every playlist by name with the
\* paths of its tracks; an index the library does not have is left out
SavedOnExit(a) ==
    [volume |-> a.playback.volume, shuffle |-> a.playback.shuffle,
     repeat |-> a.playback.repeat,
     playlists |-> [i \in DOMAIN a.playlists |->
                      [name |-> a.playlists[i].name,
                       tracks |-> LET kept == SelectSeq(a.playlists[i].tracks,
                                                        LAMBDA idx : idx < Len(a.library))
                                  IN  [j \in 1..Len(kept) |-> a.library[kept[j] + 1]]]]]

\* the names of the playlists of old that new no longer holds unchanged
EditedPlaylists(old, new) ==
    {old[i].name : i \in {j \in DOMAIN old : j \notin DOMAIN new \/ new[j] # old[j]}}

\* one pass of the loop in run_app: the event is handled (a, u), then the frame is drawn
\* unless the handler panicked or asked to quit; leaving the loop saves the state
Commit(kind, arg, a, u) ==
    LET r == IF a.panicked \/ a.flags.should_quit
             THEN [ui |-> u, panic |-> a.panicked]
             ELSE Render(a, u)
    IN  /\ library' = a.library
        /\ queue' = a.queue
        /\ playlists' = a.playlists
        /\ search' = a.search
        /\ playback' = a.playback
        /\ flags' = a.flags
        /\ sent' = a.sent
        /\ ui' = r.ui
        /\ panicked' = r.panic
        /\ hist' = Note(kind, arg)
        /\ disk' = [disk EXCEPT
                      !.state_json = IF a.flags.should_quit /\ ~a.panicked
                                     THEN Some(SavedOnExit(a)) ELSE @,
                      !.music = IF kind = "LibraryReady" THEN a.library ELSE @,
                      !.edited = IF kind \in {"ScanFinished", "LibraryReady"}
                                 THEN @ ELSE @ \cup EditedPlaylists(playlists, a.playlists)]
        /\ UNCHANGED <<worker, bus>>

\* a pass of the loop that starts no thread and takes nothing from the watcher
Step(kind, arg, a, u) == Commit(kind, arg, a, u) /\ UNCHANGED watcher

\* the loop is running
Running == ~panicked /\ ~flags.should_quit

\* no modal is open and no chord is pending: the key reaches the global bindings and the panes
Plain == ~ui.show_search_modal /\ ~ui.show_playlist_modal /\ ~ui.chord_pending

---------------------------------------------------------------------------
(* The event loop of run_app: one action per event the loop can receive *)

\* longest text typed into the search modal
MaxInput == 1

\* characters typed into the search modal
Chars == {"a", "B"}

\* what Library::scan returns: the files found, ordered by their tags
Scans == {s \in Snapshots : \A i, j \in DOMAIN s : i < j => s[i] < s[j]}

\* what persist::load returns: nothing, or the state saved by an earlier run
SavedStates ==
    {None,
     Some([volume |-> 80, shuffle |-> FALSE, repeat |-> "Off",
           playlists |-> <<[name |-> "Bookmarks", tracks |-> <<3, 1>>]>>]),
     Some([volume |-> 80, shuffle |-> FALSE, repeat |-> "Off",
           playlists |-> <<[name |-> "Bookmarks", tracks |-> <<>>],
                           [name |-> "Mix", tracks |-> <<2, 3>>]>>])}

\* playlists restored by taking each saved entry as the index it had when it was saved
RestorePlaylists_ByIndex(saved_playlists, lib) ==
    [i \in DOMAIN saved_playlists |->
       [name |-> saved_playlists[i].name,
        tracks |-> [j \in DOMAIN saved_playlists[i].tracks |-> saved_playlists[i].tracks[j] - 1]]]

\* main.rs: playlists restored from saved paths through path_to_index
RestorePlaylists(saved_playlists, lib) ==
    LET restored == [i \in DOMAIN saved_playlists |->
                       [name |-> saved_playlists[i].name,
                        tracks |-> LET kept == SelectSeq(saved_playlists[i].tracks,
                                                         LAMBDA p : IsSome(path_to_index(lib, p)))
                                   IN  [j \in 1..Len(kept) |-> Unwrap(path_to_index(lib, kept[j]))]]]
    IN  IF restored = <<>> THEN <<Playlist("Bookmarks")>> ELSE restored

\* main.rs: the state saved by an earlier run is put back
Restore(a, saved) ==
    LET b == [a EXCEPT !.playback.volume = Max(0, Min(saved.volume, 100)),
                       !.playback.shuffle = saved.shuffle,
                       !.playback.repeat = saved.repeat]
    IN  [SetVolume(b, b.playback.volume) EXCEPT
           !.playlists = RestorePlaylists(saved.playlists, a.library)]

Init ==
    /\ library = <<>>
    /\ queue = QueueDefault
    /\ playlists = <<Playlist("Bookmarks")>>
    /\ search = SearchDefault
    /\ playback = PlaybackDefault
    /\ flags = FlagsDefault
    /\ ui = UiDefault
    /\ sent = <<>>
    /\ worker = WorkerDefault
    /\ panicked = FALSE
    /\ bus = BusDefault
    /\ disk \in {[state_json |-> saved, previous |-> saved, music |-> lib, edited |-> {}] :
                   saved \in SavedStates, lib \in Scans}
    /\ watcher = WatcherDefault
    /\ hist = HistInit

\* the scan thread has finished: the library is installed, every track is queued,
\* the saved state is restored and the watcher is started
ScanFinished(lib, saved) ==
    /\ Running
    /\ ~flags.initial_scan_complete
    /\ lib = disk.music
    /\ saved = disk.state_json
    /\ LET a1 == AddToQueue([AppState EXCEPT !.library = lib], [i \in 1..Len(lib) |-> i - 1])
           a2 == IF IsSome(saved) THEN Restore(a1, Unwrap(saved)) ELSE a1
           a3 == [a2 EXCEPT !.flags.initial_scan_complete = TRUE, !.flags.watcher = TRUE]
       IN  /\ Commit("ScanFinished", 0, a3, ui)
           /\ watcher' = spawn_watcher(watcher)

\* the scan thread panicked: join returns Err, no watcher is started
ScanFailed ==
    /\ Running
    /\ ~flags.initial_scan_complete
    /\ Commit("Event", 0, [AppState EXCEPT !.flags.initial_scan_complete = TRUE], ui)
    /\ watcher' = [watcher EXCEPT !.startup = 0]

\* Event::LibraryReady from the watcher
LibraryReady(new_lib) ==
    /\ Running
    /\ flags.watcher
    /\ LET a == replace_library(AppState, new_lib)
       IN  Step("LibraryReady", 0, a, clamp_selections(ui, a))

\* Ctrl+E
KeyCtrlE ==
    /\ Running /\ Plain
    /\ Step("Event", 0, AppState, [ui EXCEPT !.chord_pending = TRUE])

\* the key after Ctrl+E
KeyChord(c) ==
    /\ Running
    /\ ui.chord_pending
    /\ Step("Event", 0, AppState,
            [ui EXCEPT !.chord_pending = FALSE,
                       !.show_search_modal = IF c = "s" THEN TRUE ELSE @])

CloseSearchModal(u) ==
    [u EXCEPT !.show_search_modal = FALSE, !.search_modal_input = <<>>,
              !.search_modal_results = <<>>, !.search_modal_selected = 0,
              !.search_modal_scroll = 0]

SearchModalEsc ==
    /\ Running
    /\ ui.show_search_modal
    /\ Step("Event", 0, AppState, CloseSearchModal(ui))

SearchModalEnter ==
    /\ Running
    /\ ui.show_search_modal
    /\ IF ui.search_modal_results # <<>>
       THEN IF ui.search_modal_selected >= Len(ui.search_modal_results)
            THEN Step("Event", 0, Panic(AppState), ui)
            ELSE Step("Event", 0,
                      AddToQueue(AppState, <<ui.search_modal_results[ui.search_modal_selected + 1]>>),
                      CloseSearchModal(ui))
       ELSE Step("Event", 0, AppState, ui)

SearchModalUp ==
    /\ Running
    /\ ui.show_search_modal
    /\ Step("Event", 0, AppState,
            IF ui.search_modal_selected > 0
            THEN [ui EXCEPT !.search_modal_selected = @ - 1,
                            !.search_modal_scroll = Min(@, ui.search_modal_selected - 1)]
            ELSE ui)

SearchModalDown ==
    /\ Running
    /\ ui.show_search_modal
    /\ Step("Event", 0, AppState,
            IF ui.search_modal_results # <<>>
               /\ ui.search_modal_selected < Len(ui.search_modal_results) - 1
            THEN [ui EXCEPT !.search_modal_selected = @ + 1]
            ELSE ui)

\* the modal's text changed: the search is run against the current library
SearchModalInput(text) ==
    [ui EXCEPT !.search_modal_input = text,
               !.search_modal_results = Search(library, text),
               !.search_modal_selected = 0,
               !.search_modal_scroll = 0]

SearchModalBackspace ==
    /\ Running
    /\ ui.show_search_modal
    /\ Step("Event", 0, AppState,
            SearchModalInput(SubSeq(ui.search_modal_input, 1, SatSub(Len(ui.search_modal_input), 1))))

SearchModalChar(c) ==
    /\ Running
    /\ ui.show_search_modal
    /\ Len(ui.search_modal_input) < MaxInput
    /\ Step("Event", 0, AppState, SearchModalInput(Append(ui.search_modal_input, c)))

\* 'b': the playlist modal opens when the queue has a current entry
KeyB ==
    /\ Running /\ Plain
    /\ Step("Event", 0, AppState,
            IF IsSome(queue.current_index)
            THEN [ui EXCEPT !.show_playlist_modal = TRUE, !.playlist_modal_selected = 0]
            ELSE ui)

PlaylistModalEsc ==
    /\ Running
    /\ ui.show_playlist_modal
    /\ Step("Event", 0, AppState,
            [ui EXCEPT !.show_playlist_modal = FALSE, !.playlist_modal_selected = 0])

\* Enter in the playlist modal: the current track is toggled in the selected playlist
PlaylistModalEnter ==
    /\ Running
    /\ ui.show_playlist_modal
    /\ LET ti == CurrentTrackIndex(queue)
           pl_idx == ui.playlist_modal_selected
       IN  Step("Event", 0,
                IF IsSome(ti) /\ pl_idx < Len(playlists)
                THEN IF IsSome(Position(playlists[pl_idx + 1].tracks, Unwrap(ti)))
                     THEN RemoveFromPlaylist(AppState, pl_idx, Unwrap(ti))
                     ELSE AddToPlaylist(AppState, pl_idx, Unwrap(ti))
                ELSE AppState,
                ui)

\* Space
KeySpace == Running /\ Plain /\ Step("Event", 0, PauseResume(AppState), ui)

\* 'n'
KeyN(rnd) ==
    /\ Running /\ Plain
    /\ rnd < Max(1, Len(queue.tracks))
    /\ (~playback.shuffle => rnd = 0)
    /\ Step("Event", 0, play_next(AppState, rnd), ui)

\* 'N'
KeyShiftN == Running /\ Plain /\ Step("Event", 0, play_prev(AppState), ui)

\* 's'
KeyS == Running /\ Plain /\ Step("Event", 0, ToggleShuffle(AppState), ui)

\* 'r'
KeyR == Running /\ Plain /\ Step("Event", 0, CycleRepeat(AppState), ui)

\* 'q'
KeyQ == Running /\ Plain /\ Step("Event", 0, Quit(AppState), ui)

\* Right and Left
KeyRight == Running /\ Plain /\ Step("SeekForward", 0, SeekForward(AppState), ui)

KeyLeft == Running /\ Plain /\ Step("SeekBackward", 0, SeekBackward(AppState), ui)

\* AppAction::Seek(secs) handed to the reducer
DispatchSeek(secs) == Running /\ Step("Seek", secs, Seek(AppState, secs), ui)

\* j / k with the queue pane focused
QueueSelect(down) ==
    /\ Running /\ Plain
    /\ Step("Event", 0, update_queue_selection(AppState, down), ui)

\* Enter with the queue pane focused
QueueEnter ==
    /\ Running /\ Plain
    /\ Step("Event", 0,
            IF queue.tracks # <<>> THEN PlayQueueIndex(AppState, queue.selected_index) ELSE AppState,
            ui)

\* 'd' with the queue pane focused
QueueDelete ==
    /\ Running /\ Plain
    /\ Step("Event", 0,
            IF queue.tracks # <<>> THEN RemoveFromQueue(AppState, queue.selected_index) ELSE AppState,
            ui)

\* 'c' with the queue pane focused
QueueClear == Running /\ Plain /\ Step("Event", 0, ClearQueue(AppState), ui)

\* Enter in the library pane on "All Tracks"
LibraryEnterAll ==
    /\ Running /\ Plain
    /\ Step("Event", 0,
            IF library # <<>> THEN AddToQueue(AppState, [i \in 1..Len(library) |-> i - 1]) ELSE AppState,
            ui)

\* Enter in the library pane on an album
LibraryEnterAlbum(album) ==
    /\ Running /\ Plain
    /\ get_tracks_by_album(library, album) # <<>>
    /\ Step("Event", 0, AddToQueue(AppState, get_tracks_by_album(library, album)), ui)

\* Enter in the library pane or the playlists pane on a playlist
LibraryEnterPlaylist(idx) ==
    /\ Running /\ Plain
    /\ idx < Len(playlists)
    /\ Step("Event", 0,
            IF playlists[idx + 1].tracks # <<>>
            THEN AddToQueue(AppState, playlists[idx + 1].tracks)
            ELSE AppState,
            ui)

\* Enter in the directory browser on a track entry; the entries are rebuilt from the
\* library at startup and on every LibraryReady
DirEnterTrack(idx) ==
    /\ Running /\ Plain
    /\ idx < Len(library)
    /\ Step("Event", 0, AddToQueue(AppState, <<idx>>), ui)

\* AudioEvent::Playing / Paused / Stopped from the worker
AudioState(s) == Running /\ Step("Event", 0, [AppState EXCEPT !.playback.state = s], ui)

\* AudioEvent::TrackFinished and AudioEvent::TrackError both end in play_next
AudioTrackEnded(rnd) ==
    /\ Running
    /\ rnd < Max(1, Len(queue.tracks))
    /\ (~playback.shuffle => rnd = 0)
    /\ Step("Event", 0, play_next(AppState, rnd), ui)

\* AudioEvent::PositionUpdate
AudioPositionUpdate(position_secs, duration_secs) ==
    /\ Running
    /\ position_secs <= duration_secs
    /\ Step("Event", 0, UpdatePosition(AppState, position_secs, duration_secs), ui)

Next ==
    \/ \E lib \in Scans, saved \in SavedStates : ScanFinished(lib, saved)
    \/ ScanFailed
    \/ \E new_lib \in Scans : LibraryReady(new_lib)
    \/ KeyCtrlE
    \/ \E c \in {"s", "x"} : KeyChord(c)
    \/ SearchModalEsc
    \/ SearchModalEnter
    \/ SearchModalUp
    \/ SearchModalDown
    \/ SearchModalBackspace
    \/ \E c \in Chars : SearchModalChar(c)
    \/ KeyB
    \/ PlaylistModalEsc
    \/ PlaylistModalEnter
    \/ QueueSelect(TRUE)
    \/ QueueSelect(FALSE)
    \/ QueueDelete
    \/ QueueClear
    \/ LibraryEnterAll
    \/ \E album \in {"x", "y"} : LibraryEnterAlbum(album)
    \/ \E idx \in 0..(MaxPl - 1) : LibraryEnterPlaylist(idx)
    \/ \E idx \in 0..(NPaths - 1) : DirEnterTrack(idx)

Spec == Init /\ [][Next]_vars

---------------------------------------------------------------------------
(* The event loop with a fixed library: the playback keys and the audio events *)

\* longest position and duration, in seconds
MaxSecs == 12

\* values handed to AppAction::Seek
SeekRange == (0 - 6)..(MaxSecs + 6)

NextPlay ==
    \/ ScanFinished(IdSnapshot(NPaths), None)
    \/ KeySpace
    \/ \E rnd \in 0..(NPaths - 1) : KeyN(rnd)
    \/ KeyShiftN
    \/ KeyS
    \/ KeyR
    \/ KeyQ
    \/ KeyRight
    \/ KeyLeft
    \/ \E secs \in SeekRange : DispatchSeek(secs)
    \/ QueueEnter
    \/ \E s \in {"Playing", "Paused", "Stopped"} : AudioState(s)
    \/ \E rnd \in 0..(NPaths - 1) : AudioTrackEnded(rnd)
    \/ \E p \in 0..MaxSecs, d \in {0, 4, MaxSecs} : AudioPositionUpdate(p, d)

\* no state file, and a music directory with every path
InitPlay == Init /\ disk.state_json = None /\ disk.music = IdSnapshot(NPaths)

SpecPlay == InitPlay /\ [][NextPlay]_vars

---------------------------------------------------------------------------
(* One run of the program from start to exit: the startup scan, the rescans, the *)
(* playlist edits and the quit key                                               *)

NextRestart ==
    \/ \E lib \in Scans, saved \in SavedStates : ScanFinished(lib, saved)
    \/ ScanFailed
    \/ \E new_lib \in Scans : LibraryReady(new_lib)
    \/ QueueEnter
    \/ KeyB
    \/ PlaylistModalEsc
    \/ PlaylistModalEnter
    \/ KeyQ

SpecRestart == Init /\ [][NextRestart]_vars

----------------------------------------------------------------------------
(* The queue under every action that edits it or moves its current entry *)

NextQueue ==
    \/ \E lib \in Scans : ScanFinished(lib, None)
    \/ \E new_lib \in Scans : LibraryReady(new_lib)
    \/ QueueSelect(TRUE)
    \/ QueueSelect(FALSE)
    \/ QueueEnter
    \/ QueueDelete
    \/ QueueClear
    \/ LibraryEnterAll
    \/ \E idx \in 0..(NPaths - 1) : DirEnterTrack(idx)
    \/ \E rnd \in 0..(NPaths - 1) : KeyN(rnd)
    \/ KeyShiftN
    \/ KeyS
    \/ KeyR
    \/ \E rnd \in 0..(NPaths - 1) : AudioTrackEnded(rnd)
    \/ AudioPositionUpdate(4, MaxSecs)

\* no state file
InitQueue == Init /\ disk.state_json = None

SpecQueue == InitQueue /\ [][NextQueue]_vars

---------------------------------------------------------------------------
(* The library scans: the startup scan, LibrarySync and the watcher's debounce *)
(* thread.  Times are in tenths of a second.                                   *)

\* the clock stops here
MaxClock == 34

\* most watch events queued for the debounce thread
MaxNotify == 1

\* most LibraryReady events waiting on the bus
MaxReady == 1

\* most scan threads spawned by LibrarySync that run at one time
MaxSync == 1

\* watcher.rs: debounce, the timeout of recv_timeout, and debounce + 600 ms
Debounce == 20
Poll == 5
Window == 26

\* how long Library::scan takes in the debounce thread: under a tenth, or three tenths
ScanTimes == {0, 3}

\* AppAction::LibrarySync
LibrarySync(a) ==
    IF a.flags.sync_state = "Scanning" \/ ~a.flags.initial_scan_complete
    THEN a
    ELSE [a EXCEPT !.flags.sync_state = "Scanning"]

\* the scans that are running: the startup scan, the debounce thread's, LibrarySync's
RunningScans(w) == w.startup + (IF w.pc = "Scan" THEN 1 ELSE 0) + w.sync_threads

\* a music directory with one file and no state file
InitWatch == Init /\ disk.state_json = None /\ disk.music = IdSnapshot(1)

\* a step of a thread other than the event loop
WatchStep(kind, w) ==
    /\ Running
    /\ watcher' = w
    /\ hist' = [HistInit EXCEPT !.kind = kind]
    /\ UNCHANGED <<appVars, worker, bus, disk>>

\* the reducer handles LibrarySync; past the gate a scan thread is spawned
DispatchLibrarySync ==
    /\ Running
    /\ LET a == LibrarySync(AppState)
           spawned == a.flags.sync_state # flags.sync_state
       IN  /\ spawned => watcher.sync_threads < MaxSync
           /\ Commit("LibrarySync", 0, a, ui)
           /\ watcher' = [watcher EXCEPT !.sync_threads = IF spawned THEN @ + 1 ELSE @]

\* a thread spawned by LibrarySync finishes its scan and sends LibraryReady
SyncScanDone ==
    /\ watcher.sync_threads > 0
    /\ watcher.event_tx < MaxReady
    /\ WatchStep("SyncScanDone", [watcher EXCEPT !.sync_threads = @ - 1, !.event_tx = @ + 1])

\* Event::LibraryReady taken off the bus; the directory has the files it had
WatchLibraryReady ==
    /\ Running
    /\ watcher.event_tx > 0
    /\ LET a == replace_library(AppState, disk.music)
       IN  /\ Commit("LibraryReady", 0, a, clamp_selections(ui, a))
           /\ watcher' = [watcher EXCEPT !.event_tx = @ - 1]

\* the notify callback: a file was created, removed or modified
FsEvent ==
    /\ watcher.pc # "Off"
    /\ watcher.notify_rx < MaxNotify
    /\ WatchStep("FsEvent", [watcher EXCEPT !.notify_rx = @ + 1, !.last_fs = Some(watcher.now),
                                            !.rescans = 0])

\* a tenth of a second passes; a thread that is due does not sleep through it
WatchElapse ==
    /\ watcher.pc # "Off"
    /\ watcher.now < MaxClock
    /\ watcher.pc = "Recv" => watcher.notify_rx = 0 /\ watcher.now < watcher.wait_from + Poll
    /\ watcher.pc = "Scan" => watcher.now < watcher.scan_end
    /\ WatchStep("Elapse", [watcher EXCEPT !.now = @ + 1])

\* recv_timeout returns Ok(())
WatchRecvOk ==
    /\ watcher.pc = "Recv"
    /\ watcher.notify_rx > 0
    /\ WatchStep("RecvOk", [watcher EXCEPT !.notify_rx = @ - 1, !.last_event = watcher.now,
                                           !.wait_from = watcher.now])

\* the Timeout arm with had_events false and the quiet period inside the window:
\* Library::scan starts on the debounce thread
StartRescan(w, dur) ==
    IF w.now - w.last_event >= Debounce /\ w.now - w.last_event < Window
    THEN [w EXCEPT !.pc = "Scan", !.scan_end = w.now + dur, !.rescans = @ + 1]
    ELSE [w EXCEPT !.wait_from = w.now]

\* recv_timeout returns Timeout; late tells whether watch events arrived before the
\* drain, dur how long the scan takes if one starts
WatchTimeout(late, dur) ==
    /\ watcher.pc = "Recv"
    /\ watcher.notify_rx = 0
    /\ watcher.now = watcher.wait_from + Poll
    /\ LET w == IF watcher.now - watcher.last_event >= Debounce /\ late
                THEN [watcher EXCEPT !.last_event = watcher.now, !.wait_from = watcher.now,
                                     !.last_fs = Some(watcher.now), !.rescans = 0]
                ELSE StartRescan(watcher, dur)
       IN  WatchStep(IF w.pc = "Scan" THEN "Rescan" ELSE "Timeout", w)

\* Library::scan returns on the debounce thread: LibraryReady is sent
WatchScanDone ==
    /\ watcher.pc = "Scan"
    /\ watcher.now = watcher.scan_end
    /\ watcher.event_tx < MaxReady
    /\ WatchStep("RescanDone", [watcher EXCEPT !.pc = "Recv", !.wait_from = watcher.now,
                                               !.event_tx = @ + 1])

NextWatch ==
    \/ ScanFinished(IdSnapshot(1), None)
    \/ DispatchLibrarySync
    \/ SyncScanDone
    \/ WatchLibraryReady
    \/ FsEvent
    \/ WatchElapse
    \/ WatchRecvOk
    \/ \E late \in BOOLEAN, dur \in ScanTimes : WatchTimeout(late, dur)
    \/ WatchScanDone

SpecWatch == InitWatch /\ [][NextWatch]_vars

---------------------------------------------------------------------------
(* The queue navigation on its own: play_next and play_prev applied once *)

\* positions the playback can be at when the key or the event arrives: at the start,
\* on the three-second mark of play_prev, past it
NavPositions == {0, 3, 4}

\* a queue over the full library, with every entry in range and the current position,
\* when there is one, inside the queue; any playback mode
InitNav ==
    /\ library = IdSnapshot(NPaths)
    /\ queue \in {[QueueDefault EXCEPT !.tracks = t, !.current_index = c] :
                    t \in SeqsUpTo(0..(NPaths - 1), MaxQueue),
                    c \in {None} \cup {Some(i) : i \in 0..(MaxQueue - 1)}}
    /\ IsSome(queue.current_index) => Unwrap(queue.current_index) < Len(queue.tracks)
    /\ playlists = <<Playlist("Bookmarks")>>
    /\ playback \in {[PlaybackDefault EXCEPT !.state = s, !.position_secs = p, !.duration_secs = MaxSecs,
                                             !.shuffle = sh, !.repeat = r] :
                       s \in {"Stopped", "Playing", "Paused"}, p \in NavPositions,
                       sh \in BOOLEAN, r \in {"Off", "All", "One"}}
    /\ search = SearchDefault
    /\ flags = [FlagsDefault EXCEPT !.initial_scan_complete = TRUE, !.watcher = TRUE]
    /\ ui = UiDefault
    /\ sent = <<>>
    /\ worker = WorkerDefault
    /\ panicked = FALSE
    /\ bus = BusDefault
    /\ disk = DiskDefault
    /\ watcher = WatcherDefault
    /\ hist = HistInit

\* one reducer step on its own; hist keeps the App state it started from and the draw
Nav(kind, rnd, a) ==
    /\ hist.kind = "init"
    /\ library' = a.library
    /\ queue' = a.queue
    /\ playlists' = a.playlists
    /\ search' = a.search
    /\ playback' = a.playback
    /\ flags' = a.flags
    /\ sent' = a.sent
    /\ panicked' = a.panicked
    /\ hist' = [Record(kind) EXCEPT !.arg = rnd]
    /\ UNCHANGED <<ui, worker, bus, disk, watcher>>

\* the draws rng.gen_range(0..len) can return; without shuffle nothing is drawn
Draw(rnd) == rnd < Max(1, Len(queue.tracks)) /\ (~playback.shuffle => rnd = 0)

\* AppAction::NextTrack
NavNextTrack(rnd) == Draw(rnd) /\ Nav("NextTrack", rnd, play_next(AppState, rnd))

\* AppAction::TrackFinished
NavTrackFinished(rnd) == Draw(rnd) /\ Nav("TrackFinished", rnd, play_next(AppState, rnd))

\* AudioEvent::TrackError: the event loop turns it into AppAction::NextTrack
NavTrackError(rnd) == Draw(rnd) /\ Nav("TrackError", rnd, play_next(AppState, rnd))

\* a second reducer step: hist keeps the App state the first one started from
NavThen(kind, rnd, a) ==
    /\ library' = a.library
    /\ queue' = a.queue
    /\ playlists' = a.playlists
    /\ search' = a.search
    /\ playback' = a.playback
    /\ flags' = a.flags
    /\ sent' = a.sent
    /\ panicked' = a.panicked
    /\ hist' = [hist EXCEPT !.kind = kind, !.arg = rnd]
    /\ UNCHANGED <<ui, worker, bus, disk, watcher>>

\* the last PositionUpdate of the track that is ending, handled before its TrackFinished
NavUpdatePosition(position_secs, duration_secs) ==
    /\ position_secs <= duration_secs
    /\ Nav("PositionUpdate", 0, UpdatePosition(AppState, position_secs, duration_secs))

\* the TrackFinished that follows that PositionUpdate
NavFinishedAfterPosition(rnd) ==
    /\ hist.kind = "PositionUpdate"
    /\ Draw(rnd)
    /\ NavThen("PositionUpdate, TrackFinished", rnd, play_next(AppState, rnd))

\* the last PositionUpdate of the track that has ended, handled after its TrackFinished
NavLatePosition(position_secs, duration_secs) ==
    /\ hist.kind = "TrackFinished"
    /\ position_secs <= duration_secs
    /\ NavThen("TrackFinished, PositionUpdate", hist.arg,
               UpdatePosition(AppState, position_secs, duration_secs))

\* AppAction::PrevTrack
NavPrevTrack == Nav("PrevTrack", 0, play_prev(AppState))

NextNav ==
    \/ \E rnd \in 0..(MaxQueue - 1) : NavNextTrack(rnd)
    \/ \E rnd \in 0..(MaxQueue - 1) : NavTrackFinished(rnd)
    \/ \E rnd \in 0..(MaxQueue - 1) : NavTrackError(rnd)
    \/ \E p \in NavPositions, d \in {0, MaxSecs} : NavUpdatePosition(p, d)
    \/ \E rnd \in 0..(MaxQueue - 1) : NavFinishedAfterPosition(rnd)
    \/ \E p \in NavPositions, d \in {0, MaxSecs} : NavLatePosition(p, d)
    \/ NavPrevTrack

SpecNav == InitNav /\ [][NextNav]_vars

----------------------------------------------------------------------------
(* One action of the reducer on its own: RemoveFromQueue or PauseResume applied once *)

\* longest queue drawn here
MaxRows == 3

\* a queue over the full library with the current position, when there is one, inside the
\* queue; stopped, playing or paused, at the start of the track or 4 seconds in
InitOnce ==
    /\ library = IdSnapshot(NPaths)
    /\ queue \in {[QueueDefault EXCEPT !.tracks = t, !.current_index = c] :
                    t \in SeqsUpTo(0..(NPaths - 1), MaxRows),
                    c \in {None} \cup {Some(i) : i \in 0..(MaxRows - 1)}}
    /\ IsSome(queue.current_index) => Unwrap(queue.current_index) < Len(queue.tracks)
    /\ playlists = <<Playlist("Bookmarks")>>
    /\ playback \in {[PlaybackDefault EXCEPT !.state = s, !.position_secs = p, !.duration_secs = MaxSecs] :
                       s \in {"Stopped", "Playing", "Paused"}, p \in {0, 4}}
    /\ search = SearchDefault
    /\ flags = [FlagsDefault EXCEPT !.initial_scan_complete = TRUE, !.watcher = TRUE]
    /\ ui = UiDefault
    /\ sent = <<>>
    /\ worker = WorkerDefault
    /\ panicked = FALSE
    /\ bus = BusDefault
    /\ disk = DiskDefault
    /\ watcher = WatcherDefault
    /\ hist = HistInit

\* AppAction::RemoveFromQueue(idx), with idx inside the queue or past its end
OnceRemoveFromQueue(idx) == Nav("RemoveFromQueue", idx, RemoveFromQueue(AppState, idx))

\* AppAction::PauseResume
OncePauseResume == Nav("PauseResume", 0, PauseResume(AppState))

NextOnce ==
    \/ \E idx \in 0..MaxRows : OnceRemoveFromQueue(idx)
    \/ OncePauseResume

SpecOnce == InitOnce /\ [][NextOnce]_vars

---------------------------------------------------------------------------
(* The library becomes empty: replace_library with an empty snapshot, then any action *)

\* the match of App::handle_action, for the actions that navigate, play and seek
HandleAction(a, action, x) ==
    CASE action = "NextTrack" -> play_next(a, 0)
      [] action = "PrevTrack" -> play_prev(a)
      [] action = "TrackFinished" -> play_next(a, 0)
      [] action = "PauseResume" -> PauseResume(a)
      [] action = "PlayTrack" -> PlayTrack(a, x)
      [] action = "PlayQueueIndex" -> PlayQueueIndex(a, x)
      [] action = "RemoveFromQueue" -> RemoveFromQueue(a, x)
      [] action = "SetQueueSelection" -> SetQueueSelection(a, x)
      [] action = "Seek" -> Seek(a, x)

\* an App state over the full library or none: a queue of its first and last tracks with
\* the cursors on the first or last row, two playlists, playing or not
InitZero ==
    /\ library \in {IdSnapshot(0), IdSnapshot(NPaths)}
    /\ queue \in {[tracks |-> t, current_index |-> c, selected_index |-> sel, scroll_offset |-> sel] :
                    t \in SeqsUpTo({0, NPaths - 1}, MaxQueue),
                    c \in {None} \cup {Some(i) : i \in 0..(MaxQueue - 1)},
                    sel \in {0, MaxQueue - 1}}
    /\ playlists \in {<<[name |-> "Bookmarks", tracks |-> x], [name |-> "Mix", tracks |-> <<>>]>> :
                        x \in SeqsUpTo(Indices, 1)}
    /\ playback \in {PlaybackDefault, PlaybackBusy}
    /\ search = SearchDefault
    /\ flags = [FlagsDefault EXCEPT !.initial_scan_complete = TRUE, !.watcher = TRUE]
    /\ ui = UiDefault
    /\ sent = <<>>
    /\ worker = WorkerDefault
    /\ panicked = FALSE
    /\ bus = BusDefault
    /\ disk = DiskDefault
    /\ watcher = WatcherDefault
    /\ hist = HistInit

\* an action handled once the library is empty
ZeroTracksAction(action, x) ==
    /\ hist.kind \in {"LibraryReady", "ZeroTracks"}
    /\ library = <<>>
    /\ ~panicked
    /\ NavThen("ZeroTracks", x, HandleAction(AppState, action, x))

NextZero ==
    \/ Remap(<<>>)
    \/ \E action \in {"NextTrack", "PrevTrack", "TrackFinished", "PauseResume"} :
           ZeroTracksAction(action, 0)
    \/ \E action \in {"PlayTrack", "PlayQueueIndex", "RemoveFromQueue", "SetQueueSelection"},
          x \in Indices : ZeroTracksAction(action, x)
    \/ \E secs \in {0 - 1, 0, MaxSecs} : ZeroTracksAction("Seek", secs)

SpecZero == InitZero /\ [][NextZero]_vars

---------------------------------------------------------------------------
(* The playback thread: player_thread and run_playback_loop *)

\* the thread's clock stops here
MaxTime == 4

\* durations open_and_play reports; 0 when the decoder does not know
Durations == {0, 2, 3}

\* seek targets that reach the thread
SeekTargets == 0..2

\* start.elapsed() for the Instant kept in play_start
Elapsed(w) == IF IsSome(w.play_start) THEN w.now - Unwrap(w.play_start) ELSE 0

\* a new loop that keeps counting from where the old track was
EnterLoop_KeepCounter(w, dur, vol) ==
    [w EXCEPT !.mode = "Loop", !.is_paused = FALSE, !.play_start = Some(w.now),
              !.duration = dur, !.volume = vol]

\* a fresh run_playback_loop around a sink that has just started
EnterLoop(w, dur, vol) ==
    [w EXCEPT !.mode = "Loop", !.is_paused = FALSE, !.play_start = Some(w.now),
              !.accumulated_secs = 0, !.duration = dur, !.volume = vol]

\* a return that leaves the loop running around a silent sink
LeaveLoop_KeepLoop(w) ==
    [w EXCEPT !.is_paused = FALSE, !.play_start = None, !.accumulated_secs = 0]

\* the loop returns to the outer loop of player_thread; the sink is dropped
LeaveLoop(w) ==
    [w EXCEPT !.mode = "Idle", !.is_paused = FALSE, !.play_start = None,
              !.accumulated_secs = 0, !.duration = 0, !.volume = 100]

\* Pause that forgets the time played since the clock was started
OnPause_DropElapsed(w) ==
    [w EXCEPT !.play_start = None, !.is_paused = TRUE]

\* Pause while playing: the elapsed time is added to accumulated_secs
OnPause(w) ==
    [w EXCEPT !.accumulated_secs = @ + Elapsed(w), !.play_start = None, !.is_paused = TRUE]

\* Resume that credits the track with one second of the pause
OnResume_CreditsPause(w) ==
    [w EXCEPT !.play_start = Some(Max(0, w.now - 1)), !.is_paused = FALSE]

\* Resume while paused: the clock is restarted
OnResume(w) == [w EXCEPT !.play_start = Some(w.now), !.is_paused = FALSE]

\* Seek that restarts the clock even while paused
OnSeek_RestartsPaused(w, secs, ok) ==
    IF ok THEN [w EXCEPT !.accumulated_secs = secs, !.play_start = Some(w.now)] ELSE w

\* Seek: on success the position is the target and the clock is restarted unless paused
OnSeek(w, secs, ok) ==
    IF ok
    THEN [w EXCEPT !.accumulated_secs = secs,
                   !.play_start = IF w.is_paused THEN @ ELSE Some(w.now)]
    ELSE w

\* the position a tick reports, before the cap at the duration
TickPos(w) ==
    IF w.is_paused THEN w.accumulated_secs
    ELSE IF IsSome(w.play_start) THEN w.accumulated_secs + Elapsed(w)
    ELSE w.accumulated_secs

\* what a step of the thread leaves in hist: the command it received (or Tick) with its
\* argument, the thread as it was before, the event it emitted (none when it sent nothing),
\* the positions of the last two PositionUpdates since the last Playing of a new track,
\* TrackFinished, Stopped, TrackError, Play or Seek, whether a Stop has been received
\* with no Play opened since, and, until the next Play, Stop, Seek or TrackFinished, the
\* position the clock stood at when the last Pause took effect and the time of the Resume
\* that followed it
Observe(cmd, arg, kind, prev, last, resumed) ==
    hist' = [HistInit EXCEPT !.kind = kind, !.prev_pos = prev, !.last_pos = last,
                             !.resumed = resumed, !.cmd = cmd, !.arg = arg,
                             !.before = worker,
                             !.after_stop = IF cmd = "Stop" THEN TRUE
                                            ELSE IF kind = "Playing" /\ cmd = "Play" THEN FALSE
                                            ELSE hist.after_stop,
                             !.paused_at = IF kind = "Paused" THEN Some(TickPos(worker))
                                           ELSE IF cmd \in {"Play", "Stop", "Seek"}
                                                   \/ kind = "TrackFinished" THEN None
                                           ELSE hist.paused_at,
                             !.resumed_at = IF kind = "Playing" /\ cmd = "Resume"
                                            THEN Some(worker.now)
                                            ELSE IF cmd \in {"Play", "Stop", "Seek"}
                                                    \/ kind \in {"TrackFinished", "Paused"}
                                            THEN None
                                            ELSE hist.resumed_at]

InitWorker ==
    /\ library = <<>>
    /\ queue = QueueDefault
    /\ playlists = <<Playlist("Bookmarks")>>
    /\ search = SearchDefault
    /\ playback = PlaybackDefault
    /\ flags = FlagsDefault
    /\ ui = UiDefault
    /\ sent = <<>>
    /\ worker = WorkerDefault
    /\ panicked = FALSE
    /\ bus = BusDefault
    /\ disk = DiskDefault
    /\ watcher = WatcherDefault
    /\ hist = HistInit

\* time passes
Elapse ==
    /\ worker.now < MaxTime
    /\ worker' = [worker EXCEPT !.now = @ + 1]
    /\ UNCHANGED <<appVars, bus, disk, watcher, hist>>

\* Play(path) is received; opened tells whether open_and_play succeeds
WorkerPlay(opened, dur) ==
    /\ IF opened
       THEN /\ worker' = EnterLoop(worker, dur, IF worker.mode = "Loop" THEN worker.volume ELSE 100)
            /\ Observe("Play", 1, "Playing", None, None, FALSE)
       ELSE /\ worker' = LeaveLoop(worker)
            /\ Observe("Play", 0, "TrackError", None, None, FALSE)
    /\ UNCHANGED <<appVars, bus, disk, watcher>>

\* Pause that is answered in the loop whether or not the thread is paused already
WorkerPause_Always ==
    /\ IF worker.mode = "Loop"
       THEN /\ worker' = OnPause(worker)
            /\ Observe("Pause", 0, "Paused", hist.prev_pos, hist.last_pos, hist.resumed)
       ELSE /\ worker' = worker
            /\ Observe("Pause", 0, "none", hist.prev_pos, hist.last_pos, hist.resumed)
    /\ UNCHANGED <<appVars, bus, disk, watcher>>

WorkerPause ==
    /\ IF worker.mode = "Loop" /\ ~worker.is_paused
       THEN /\ worker' = OnPause(worker)
            /\ Observe("Pause", 0, "Paused", hist.prev_pos, hist.last_pos, hist.resumed)
       ELSE /\ worker' = worker
            /\ Observe("Pause", 0, "none", hist.prev_pos, hist.last_pos, hist.resumed)
    /\ UNCHANGED <<appVars, bus, disk, watcher>>

WorkerResume ==
    /\ IF worker.mode = "Loop" /\ worker.is_paused
       THEN /\ worker' = OnResume(worker)
            /\ Observe("Resume", 0, "Playing", hist.prev_pos, hist.last_pos, TRUE)
       ELSE /\ worker' = worker
            /\ Observe("Resume", 0, "none", hist.prev_pos, hist.last_pos, hist.resumed)
    /\ UNCHANGED <<appVars, bus, disk, watcher>>

\* Stop is answered with Stopped in both loops
WorkerStop ==
    /\ worker' = LeaveLoop(worker)
    /\ Observe("Stop", 0, "Stopped", None, None, FALSE)
    /\ UNCHANGED <<appVars, bus, disk, watcher>>

\* SetVolume reaches the sink inside the loop and is dropped outside
WorkerSetVolume(vol) ==
    /\ worker' = IF worker.mode = "Loop" THEN [worker EXCEPT !.volume = vol] ELSE worker
    /\ Observe("SetVolume", vol, "none", hist.prev_pos, hist.last_pos, hist.resumed)
    /\ UNCHANGED <<appVars, bus, disk, watcher>>

\* Seek(secs) is received; ok tells whether sink.try_seek succeeds; hist keeps the target
\* of an accepted seek and -1 for a rejected one
WorkerSeek(secs, ok) ==
    /\ worker' = IF worker.mode = "Loop" THEN OnSeek(worker, secs, ok) ELSE worker
    /\ Observe("Seek", IF ok THEN secs ELSE 0 - 1, "none", None, None, FALSE)
    /\ UNCHANGED <<appVars, bus, disk, watcher>>

\* a tick that reports the clock without the cap at the duration
WorkerTick_NoCap(empty) ==
    /\ IF worker.mode = "Loop"
       THEN IF empty /\ ~worker.is_paused
            THEN /\ worker' = LeaveLoop(worker)
                 /\ Observe("Tick", 1, "TrackFinished", None, None, FALSE)
            ELSE /\ worker' = worker
                 /\ Observe("Tick", IF empty THEN 1 ELSE 0, "PositionUpdate", hist.last_pos,
                            Some(TickPos(worker)), hist.resumed)
       ELSE /\ worker' = worker
            /\ Observe("Tick", IF empty THEN 1 ELSE 0, "none", hist.prev_pos, hist.last_pos,
                       hist.resumed)
    /\ UNCHANGED <<appVars, bus, disk, watcher>>

\* the 250 ms ticker fires; empty is what sink.empty() returns
WorkerTick(empty) ==
    /\ IF worker.mode = "Loop"
       THEN IF empty /\ ~worker.is_paused
            THEN /\ worker' = LeaveLoop(worker)
                 /\ Observe("Tick", 1, "TrackFinished", None, None, FALSE)
            ELSE /\ worker' = worker
                 /\ Observe("Tick", IF empty THEN 1 ELSE 0, "PositionUpdate", hist.last_pos,
                            Some(Min(TickPos(worker), worker.duration)), hist.resumed)
       ELSE /\ worker' = worker
            /\ Observe("Tick", IF empty THEN 1 ELSE 0, "none", hist.prev_pos, hist.last_pos,
                       hist.resumed)
    /\ UNCHANGED <<appVars, bus, disk, watcher>>

NextWorker ==
    \/ Elapse
    \/ \E opened \in BOOLEAN, dur \in Durations : WorkerPlay(opened, dur)
    \/ WorkerPause
    \/ WorkerResume
    \/ WorkerStop
    \/ \E vol \in {50} : WorkerSetVolume(vol)
    \/ \E secs \in SeekTargets, ok \in BOOLEAN : WorkerSeek(secs, ok)
    \/ \E empty \in BOOLEAN : WorkerTick(empty)

SpecWorker == InitWorker /\ [][NextWorker]_vars

---------------------------------------------------------------------------
(* The decode chain: open_and_play applied to any file *)

\* longest buffer of decoded samples
MaxSamples == 2

\* extensions of the files handed to Play
Exts == {"mp3", "MP3", "flac", "wav", "ogg", "m4a", ""}

\* a file as open_and_play meets it: whether File::open succeeds, its extension, whether
\* Decoder::new and the decoder picked by the extension accept it, the duration they
\* report, and for symphonia whether the probe succeeds, an audio track is found, a
\* codec is made, and how many samples the packets decode to
AudioFiles ==
    [opens : BOOLEAN, ext : Exts, auto : BOOLEAN, directed : BOOLEAN, duration : {0, MaxTime},
     probe : BOOLEAN, track : BOOLEAN, codec : BOOLEAN, samples : 0..MaxSamples]

\* str::to_lowercase on an extension
ExtLower(ext) == IF ext = "MP3" THEN "mp3" ELSE ext

\* a stage that produced a source: a sink is created and the source appended
Opened(stage, duration) ==
    [ok |-> TRUE, stage |-> stage, duration |-> duration, sinks |-> 1, err |-> ""]

\* a stage that failed: no sink
Failed(stage, err) ==
    [ok |-> FALSE, stage |-> stage, duration |-> 0, sinks |-> 0, err |-> err]

\* open_and_play, first block: rodio's Decoder::new
AutoDetect(f) ==
    IF f.opens /\ f.auto THEN Opened("auto", f.duration) ELSE Failed("auto", "")

\* open_and_play, second block: the decoder named by the lowercased extension
ExtensionDirected(f) ==
    IF f.opens /\ ExtLower(f.ext) \in {"mp3", "flac", "wav", "ogg"} /\ f.directed
    THEN Opened("extension", f.duration)
    ELSE Failed("extension", "")

\* decode_with_symphonia that plays whatever was decoded, even nothing
decode_with_symphonia_AllowsEmpty(f) ==
    IF ~f.opens THEN Failed("fallback", "Open")
    ELSE IF ~f.probe THEN Failed("fallback", "Probe")
    ELSE IF ~f.track THEN Failed("fallback", "No audio track found")
    ELSE IF ~f.codec THEN Failed("fallback", "Codec")
    ELSE Opened("fallback", f.samples)

\* decode_with_symphonia: the whole track is decoded into all_samples; the duration is
\* that of the buffer
decode_with_symphonia(f) ==
    IF ~f.opens THEN Failed("fallback", "Open")
    ELSE IF ~f.probe THEN Failed("fallback", "Probe")
    ELSE IF ~f.track THEN Failed("fallback", "No audio track found")
    ELSE IF ~f.codec THEN Failed("fallback", "Codec")
    ELSE IF f.samples = 0 THEN Failed("fallback", "No audio data decoded")
    ELSE Opened("fallback", f.samples)

\* open_and_play: the result of the first stage that succeeds, else the error of the
\* last; stage lists the stages run
open_and_play(f) ==
    LET first == AutoDetect(f)
        second == ExtensionDirected(f)
        third == decode_with_symphonia(f)
    IN  IF first.ok THEN [first EXCEPT !.stage = <<"auto">>]
        ELSE IF second.ok THEN [second EXCEPT !.stage = <<"auto", "extension">>]
        ELSE [third EXCEPT !.stage = <<"auto", "extension", "fallback">>]

\* the thread is idle, or in the loop with a sink at volume 55
InitDecode ==
    /\ library = <<>>
    /\ queue = QueueDefault
    /\ playlists = <<Playlist("Bookmarks")>>
    /\ search = SearchDefault
    /\ playback = PlaybackDefault
    /\ flags = FlagsDefault
    /\ ui = UiDefault
    /\ sent = <<>>
    /\ worker \in {WorkerDefault, EnterLoop(WorkerDefault, MaxTime, 55)}
    /\ panicked = FALSE
    /\ bus = BusDefault
    /\ disk = DiskDefault
    /\ watcher = WatcherDefault
    /\ hist = HistInit

\* player_thread and run_playback_loop, Play(path): the file is opened; on Ok the loop
\* is entered with the new sink, on Err TrackError is sent and the thread is idle
DecodePlay(f) ==
    LET r == open_and_play(f)
    IN  /\ hist.kind = "init"
        /\ worker' = IF r.ok
                     THEN EnterLoop(worker, r.duration,
                                    IF worker.mode = "Loop" THEN worker.volume ELSE 100)
                     ELSE LeaveLoop(worker)
        /\ hist' = [HistInit EXCEPT !.kind = IF r.ok THEN "Playing" ELSE "TrackError",
                                    !.cmd = "Play", !.before = worker,
                                    !.opened = Some([file |-> f, result |-> r])]
        /\ UNCHANGED <<appVars, bus, disk, watcher>>

NextDecode == \E f \in AudioFiles : DecodePlay(f)

SpecDecode == InitDecode /\ [][NextDecode]_vars

---------------------------------------------------------------------------
(* A queue of files that do not decode: the reducer and the playback thread pass *)
(* Play and TrackError to each other                                             *)

\* a library with every path, a queue that is not empty and nothing playing, in any
\* shuffle and repeat mode
InitFail ==
    /\ library = IdSnapshot(NPaths)
    /\ queue \in {[QueueDefault EXCEPT !.tracks = t] :
                    t \in SeqsUpTo(Indices, MaxQueue) \ {<<>>}}
    /\ \A i \in DOMAIN queue.tracks : queue.tracks[i] < Len(library)
    /\ playlists = <<Playlist("Bookmarks")>>
    /\ search = SearchDefault
    /\ playback \in {[PlaybackDefault EXCEPT !.shuffle = sh, !.repeat = rp] :
                       sh \in BOOLEAN, rp \in {"Off", "All", "One"}}
    /\ flags = [FlagsDefault EXCEPT !.initial_scan_complete = TRUE, !.watcher = TRUE]
    /\ ui = UiDefault
    /\ sent = <<>>
    /\ worker = WorkerDefault
    /\ panicked = FALSE
    /\ bus = BusDefault
    /\ disk = DiskDefault
    /\ watcher = WatcherDefault
    /\ hist = HistInit

\* a pass of the event loop: the commands sent go onto the command channel
FailStep(kind, a, event_rx) ==
    /\ library' = a.library
    /\ queue' = a.queue
    /\ playlists' = a.playlists
    /\ search' = a.search
    /\ playback' = a.playback
    /\ flags' = a.flags
    /\ sent' = a.sent
    /\ panicked' = a.panicked
    /\ bus' = [bus EXCEPT !.cmd_rx = @ \o a.sent, !.event_rx = event_rx]
    /\ hist' = [HistInit EXCEPT !.kind = kind]
    /\ UNCHANGED <<ui, worker, disk, watcher>>

\* Enter on row idx of the queue pane, once
FailPlayQueueIndex(idx) ==
    /\ hist.kind = "init"
    /\ idx < Len(queue.tracks)
    /\ FailStep("PlayQueueIndex", PlayQueueIndex(AppState, idx), bus.event_rx)

\* player_thread receives Play and open_and_play returns Err: TrackError is sent
FailOpen ==
    /\ ~panicked
    /\ bus.cmd_rx # <<>>
    /\ Head(bus.cmd_rx).cmd = "Play"
    /\ worker' = LeaveLoop(worker)
    /\ bus' = [bus EXCEPT !.cmd_rx = Tail(@), !.event_rx = Append(@, "TrackError")]
    /\ hist' = [HistInit EXCEPT !.kind = "Open"]
    /\ UNCHANGED <<appVars, disk, watcher>>

\* run_app takes TrackError off the bus and dispatches NextTrack; rnd is the draw of
\* the shuffle
FailTrackError(rnd) ==
    /\ ~panicked
    /\ bus.event_rx # <<>>
    /\ rnd < Len(queue.tracks)
    /\ FailStep("TrackError", play_next(AppState, rnd), Tail(bus.event_rx))

NextFail ==
    \/ \E idx \in 0..(MaxQueue - 1) : FailPlayQueueIndex(idx)
    \/ FailOpen
    \/ \E rnd \in 0..(MaxQueue - 1) : FailTrackError(rnd)

\* both threads keep running
SpecFail == InitFail /\ [][NextFail]_vars /\ WF_vars(NextFail)

---------------------------------------------------------------------------
(* The reducer and the playback thread together, joined by their two channels *)

\* Play commands the reducer sends in one run
MaxPlays == 3

\* messages a channel holds at a time
MaxChan == 2

\* Play commands among cmds
PlaysIn(cmds) == Cardinality({i \in DOMAIN cmds : cmds[i].cmd = "Play"})

\* the commands as they travel: each Play carries its number, counted on from n
Stamped(cmds, n) ==
    [i \in DOMAIN cmds |->
        [cmd |-> cmds[i].cmd, arg |-> cmds[i].arg,
         id |-> IF cmds[i].cmd = "Play" THEN n + PlaysIn(SubSeq(cmds, 1, i)) ELSE 0]]

\* an event of the thread as it travels; id is the number of the Play it answers or,
\* for TrackFinished and PositionUpdate, of the Play its sink came from; 0 for the Paused
\* and Playing that answer Pause and Resume
AudioEvent(ev, id, position_secs, duration_secs) ==
    [ev |-> ev, id |-> id, position_secs |-> position_secs, duration_secs |-> duration_secs]

\* the library is scanned and its first tracks are in the queue; nothing has been played
InitSystem ==
    /\ library = IdSnapshot(NPaths)
    /\ queue = [QueueDefault EXCEPT !.tracks = [i \in 1..MaxQueue |-> i - 1]]
    /\ playlists = <<Playlist("Bookmarks")>>
    /\ search = SearchDefault
    /\ playback \in {PlaybackDefault, [PlaybackDefault EXCEPT !.repeat = "All"]}
    /\ flags = [FlagsDefault EXCEPT !.initial_scan_complete = TRUE, !.watcher = TRUE]
    /\ ui = UiDefault
    /\ sent = <<>>
    /\ worker = WorkerDefault
    /\ panicked = FALSE
    /\ bus = BusDefault
    /\ disk = DiskDefault
    /\ watcher = WatcherDefault
    /\ hist = HistInit

\* one pass of the loop in run_app with the thread attached: what the reducer sends goes
\* onto the command channel; event_rx is what is left of the event bus; stale is 1 when
\* the event handled answers a Play that was not the last one sent
SysStep(kind, stale, a, event_rx) ==
    /\ bus.plays + PlaysIn(a.sent) <= MaxPlays
    /\ Len(bus.cmd_rx) + Len(a.sent) <= MaxChan
    /\ library' = a.library
    /\ queue' = a.queue
    /\ playlists' = a.playlists
    /\ search' = a.search
    /\ playback' = a.playback
    /\ flags' = a.flags
    /\ sent' = a.sent
    /\ panicked' = a.panicked
    /\ bus' = [bus EXCEPT !.cmd_rx = @ \o Stamped(a.sent, bus.plays),
                          !.plays = @ + PlaysIn(a.sent),
                          !.event_rx = event_rx]
    /\ hist' = [Record(kind) EXCEPT !.arg = stale]
    /\ UNCHANGED <<ui, worker, disk, watcher>>

\* j / k with the queue pane focused
SysQueueSelect(down) ==
    Running /\ SysStep("Key", 0, update_queue_selection(AppState, down), bus.event_rx)

\* Enter with the queue pane focused
SysQueueEnter ==
    Running /\ SysStep("Key", 0, PlayQueueIndex(AppState, queue.selected_index), bus.event_rx)

\* 'n'; shuffle is off, nothing is drawn
SysKeyN == Running /\ SysStep("Key", 0, play_next(AppState, 0), bus.event_rx)

\* Space
SysKeySpace == Running /\ SysStep("Key", 0, PauseResume(AppState), bus.event_rx)

\* Event::Audio: the oldest event of the thread is taken off the bus and handled
SysAudioEvent ==
    /\ Running
    /\ bus.event_rx # <<>>
    /\ LET e == Head(bus.event_rx)
           stale == IF e.id # 0 /\ e.id < bus.plays THEN 1 ELSE 0
           a == CASE e.ev = "PositionUpdate" ->
                         UpdatePosition(AppState, e.position_secs, e.duration_secs)
                  [] e.ev = "TrackFinished" -> play_next(AppState, 0)
                  [] e.ev = "TrackError" -> play_next(AppState, 0)
                  [] OTHER -> [AppState EXCEPT !.playback.state = e.ev]
       IN  SysStep(e.ev, stale, a, Tail(bus.event_rx))

\* the thread's side of a step: its new state, the event it sends if any, the Play its
\* sink now comes from
SysThread(kind, w, events, loaded) ==
    /\ Len(bus.event_rx) + Len(events) <= MaxChan
    /\ worker' = w
    /\ bus' = [bus EXCEPT !.event_rx = @ \o events, !.loaded = loaded,
                          !.cmd_rx = IF kind = "Recv" THEN Tail(@) ELSE @]
    /\ hist' = [HistInit EXCEPT !.kind = kind, !.before = worker,
                                !.cmd = IF kind = "Recv" THEN Head(bus.cmd_rx).cmd ELSE "Tick",
                                !.arg = IF kind = "Recv" THEN Head(bus.cmd_rx).id ELSE 0]
    /\ UNCHANGED <<appVars, disk, watcher>>

\* recv(cmd_rx): the oldest command is taken off the channel; opened tells whether
\* open_and_play succeeds.  The keys of this specification send Play, Pause and Resume.
SysRecv(opened, dur) ==
    /\ bus.cmd_rx # <<>>
    /\ LET c == Head(bus.cmd_rx)
           in_loop == worker.mode = "Loop"
       IN  CASE c.cmd = "Play" ->
                    IF opened
                    THEN SysThread("Recv", EnterLoop(worker, dur, IF in_loop THEN worker.volume ELSE 100),
                                   <<AudioEvent("Playing", c.id, 0, 0)>>, c.id)
                    ELSE SysThread("Recv", LeaveLoop(worker),
                                   <<AudioEvent("TrackError", c.id, 0, 0)>>, 0)
             [] c.cmd = "Pause" ->
                    IF in_loop /\ ~worker.is_paused
                    THEN SysThread("Recv", OnPause(worker), <<AudioEvent("Paused", 0, 0, 0)>>, bus.loaded)
                    ELSE SysThread("Recv", worker, <<>>, bus.loaded)
             [] c.cmd = "Resume" ->
                    IF in_loop /\ worker.is_paused
                    THEN SysThread("Recv", OnResume(worker), <<AudioEvent("Playing", 0, 0, 0)>>, bus.loaded)
                    ELSE SysThread("Recv", worker, <<>>, bus.loaded)

\* recv(position_ticker) inside the loop; empty is what sink.empty() returns.  The events
\* are about the track in the sink.
SysTick(empty) ==
    /\ worker.mode = "Loop"
    /\ IF empty /\ ~worker.is_paused
       THEN SysThread("Tick", LeaveLoop(worker), <<AudioEvent("TrackFinished", bus.loaded, 0, 0)>>, 0)
       ELSE SysThread("Tick", worker,
                      <<AudioEvent("PositionUpdate", bus.loaded, Min(TickPos(worker), worker.duration),
                                   worker.duration)>>,
                      bus.loaded)

NextSystem ==
    \/ \E down \in BOOLEAN : SysQueueSelect(down)
    \/ SysQueueEnter
    \/ SysKeyN
    \/ SysKeySpace
    \/ SysAudioEvent
    \/ \E opened \in BOOLEAN, dur \in {0, MaxTime} : SysRecv(opened, dur)
    \/ \E empty \in BOOLEAN : SysTick(empty)

SpecSystem == InitSystem /\ [][NextSystem]_vars

---------------------------------------------------------------------------
(* Properties of the remap *)

InRange(tracks, lib) == \A i \in DOMAIN tracks : tracks[i] < Len(lib)

\* the paths a Vec of indices refers to in a snapshot, in order; an index
\* beyond the snapshot refers to nothing
PathsOf(tracks, lib) ==
    LET kept == SelectSeq(tracks, LAMBDA t : t < Len(lib))
    IN  [j \in 1..Len(kept) |-> lib[kept[j] + 1]]

Surviving(paths, lib) == SelectSeq(paths, LAMBDA p : p \in PathSet(lib))

Remapped == hist.kind = "LibraryReady"

\* C2: right after replace_library(new), whatever the queue and the playlists
\* held before (out-of-range indices included), every index in queue.tracks
\* and in every playlist is below new.tracks.len().
C2_RemapInRange ==
    Remapped =>
        /\ InRange(queue.tracks, library)
        /\ \A i \in DOMAIN playlists : InRange(playlists[i].tracks, library)

C2_Witness ==
    /\ Remapped
    /\ ~InRange(hist.queue.tracks, hist.library)
    /\ Len(library) < Len(hist.library)
    /\ queue.tracks # <<>>

\* C3: when the new snapshot holds exactly the paths of the old one, in any
\* order, the queue refers to the same paths in the same sequence after
\* replace_library, and a queue whose entries all referred to a track keeps
\* its length.
C3_RoundTrip ==
    (Remapped /\ PathSet(library) = PathSet(hist.library)) =>
        /\ PathsOf(queue.tracks, library) = PathsOf(hist.queue.tracks, hist.library)
        /\ InRange(queue.tracks, library)
        /\ InRange(hist.queue.tracks, hist.library) => Len(queue.tracks) = Len(hist.queue.tracks)

C3_Witness ==
    /\ Remapped
    /\ PathSet(library) = PathSet(hist.library)
    /\ library # hist.library
    /\ Len(hist.queue.tracks) = MaxQueue
    /\ InRange(hist.queue.tracks, hist.library)
    /\ queue.tracks # hist.queue.tracks
    /\ queue.tracks[1] > queue.tracks[2]

\* C4: when the path of the currently playing queue entry is absent from the
\* new snapshot, replace_library leaves current_index None, and the queue is
\* the old entries whose path still exists, in their old order, each holding
\* the new index of its path.
C4_PlayingDeleted ==
    (Remapped /\ IsSome(PlayingPath(hist.queue, hist.library))
              /\ Unwrap(PlayingPath(hist.queue, hist.library)) \notin PathSet(library)) =>
        /\ queue.current_index = None
        /\ InRange(queue.tracks, library)
        /\ PathsOf(queue.tracks, library)
             = Surviving(PathsOf(hist.queue.tracks, hist.library), library)

C4_Witness ==
    /\ Remapped
    /\ IsSome(PlayingPath(hist.queue, hist.library))
    /\ Unwrap(PlayingPath(hist.queue, hist.library)) \notin PathSet(library)
    /\ queue.tracks # <<>>
    /\ queue.current_index = None

\* C5: when current_index designated a queue entry whose path P is in the new
\* snapshot, current_index is afterwards Some(j) and entry j of the rewritten
\* queue is the track of path P.
C5_PlayingKept ==
    (Remapped /\ IsSome(PlayingPath(hist.queue, hist.library))
              /\ Unwrap(PlayingPath(hist.queue, hist.library)) \in PathSet(library)) =>
        /\ IsSome(queue.current_index)
        /\ IsSome(PlayingPath(queue, library))
        /\ PlayingPath(queue, library) = PlayingPath(hist.queue, hist.library)

C5_Witness ==
    /\ Remapped
    /\ IsSome(PlayingPath(hist.queue, hist.library))
    /\ PlayingPath(queue, library) = PlayingPath(hist.queue, hist.library)
    /\ queue.current_index # hist.queue.current_index
    /\ CurrentTrackIndex(queue) # CurrentTrackIndex(hist.queue)

\* C7: replace_library keeps every playlist and its name; each playlist then
\* holds, in the old order and by their new indices, the tracks of its old
\* entries whose path is in the new snapshot.
C7_PlaylistRemap ==
    Remapped =>
        /\ Len(playlists) = Len(hist.playlists)
        /\ \A i \in DOMAIN hist.playlists :
             /\ i \in DOMAIN playlists
             /\ playlists[i].name = hist.playlists[i].name
             /\ InRange(playlists[i].tracks, library)
             /\ PathsOf(playlists[i].tracks, library)
                  = Surviving(PathsOf(hist.playlists[i].tracks, hist.library), library)

C7_Witness ==
    /\ Remapped
    /\ Len(playlists) = 2
    /\ hist.playlists[2].tracks # <<>>
    /\ playlists[2].tracks = <<>>
    /\ Len(hist.playlists[1].tracks) = MaxPl
    /\ Len(playlists[1].tracks) = MaxPl - 1
    /\ playlists[1].tracks # <<>> => playlists[1].tracks[1] # hist.playlists[1].tracks[1]

---------------------------------------------------------------------------
(* Properties of the event loop *)

\* C36: in every state of the reducer the selection cursor of the queue designates a row
\* of the queue, or is 0 when the queue is empty.
C36_SelectionInRange ==
    ~panicked => queue.selected_index <= Max(Len(queue.tracks) - 1, 0)

\* C6: replace_library sends no command to the worker and leaves the playback
\* state, position, duration, volume, shuffle and repeat as they were, also
\* when the path of the playing track is missing from the new snapshot.
C6_PlaybackUntouched ==
    Remapped => (sent = <<>> /\ playback = hist.playback)

C6_Witness ==
    /\ Remapped
    /\ hist.playback.state = "Playing"
    /\ IsSome(PlayingPath(hist.queue, hist.library))
    /\ Unwrap(PlayingPath(hist.queue, hist.library)) \notin PathSet(library)
    /\ queue.current_index = None
    /\ playback.state = "Playing"
    /\ sent = <<>>

\* C1: whenever the reducer has finished handling an event and control
\* returns to rendering, every index stored in queue.tracks is below
\* library.tracks.len().
C1_QueueInRange == InRange(queue.tracks, library)

\* C8: after a LibraryReady event has been handled, every index held as a
\* search result for a non-empty query (App.search_results for
\* App.search_query, the search modal's results for its input) is an index
\* into the new snapshot of a track matching the query.
C8_SearchRefreshed ==
    Remapped =>
        /\ search.query # <<>> =>
              \A i \in DOMAIN search.results :
                 /\ search.results[i] < Len(library)
                 /\ Matches(library[search.results[i] + 1], search.query)
        /\ (ui.show_search_modal /\ ui.search_modal_input # <<>>) =>
              \A i \in DOMAIN ui.search_modal_results :
                 /\ ui.search_modal_results[i] < Len(library)
                 /\ Matches(library[ui.search_modal_results[i] + 1], ui.search_modal_input)

\* C10: Seek(s) with known duration D sets playback.position_secs to
\* min(max(s, 0), D) and sends the worker Seek with exactly that value;
\* SeekForward and SeekBackward request position + 5 and position - 5 under
\* the same clamp, so the position a seek sets lies within [0, D].
C10_SeekClamp ==
    LET D == hist.playback.duration_secs
        requested == CASE hist.kind = "Seek" -> hist.arg
                       [] hist.kind = "SeekForward" -> hist.playback.position_secs + 5
                       [] hist.kind = "SeekBackward" -> hist.playback.position_secs - 5
                       [] OTHER -> 0
    IN  hist.kind \in {"Seek", "SeekForward", "SeekBackward"} =>
           /\ playback.position_secs = Min(Max(requested, 0), D)
           /\ sent = <<Cmd("Seek", Min(Max(requested, 0), D))>>
           /\ playback.position_secs >= 0
           /\ playback.position_secs <= D
           /\ playback.duration_secs = D

C10_Witness ==
    /\ hist.kind = "Seek"
    /\ hist.arg < 0
    /\ hist.playback.duration_secs > 0
    /\ hist.playback.position_secs > 0
    /\ playback.position_secs = 0
    /\ sent = <<Cmd("Seek", 0)>>

\* C9: between the Playing event of a track and the next TrackFinished,
\* Stopped, TrackError or Play, with no Seek command in between, the positions
\* of successive PositionUpdate events never decrease, Pause and Resume included.
C9_PositionMonotone ==
    (IsSome(hist.prev_pos) /\ IsSome(hist.last_pos)) =>
        Unwrap(hist.prev_pos) <= Unwrap(hist.last_pos)

C9_Witness ==
    /\ hist.kind = "PositionUpdate"
    /\ hist.resumed
    /\ IsSome(hist.prev_pos)
    /\ Unwrap(hist.prev_pos) > 0
    /\ Unwrap(hist.prev_pos) < Unwrap(hist.last_pos)

---------------------------------------------------------------------------
(* The playback thread (SpecWorker) *)

\* the thread as its last step left it: time may have passed since
AtStep == [worker EXCEPT !.now = hist.before.now]

\* the events the last step of the thread sent
Emitted == IF hist.kind \in {"none", "init"} THEN <<>> ELSE <<hist.kind>>

\* C15: a Play consumed in any state of the thread (idle, playing, paused) sends exactly
\* one event: Playing, and then the thread is in the loop, not paused, around the new
\* sink with its position counter at 0; or TrackError, and then the thread is idle with
\* no sink.  The sink it had before is gone in both cases.
C15_PlayTransition ==
    hist.cmd = "Play" =>
        \/ /\ hist.arg = 1
           /\ Emitted = <<"Playing">>
           /\ worker.mode = "Loop" /\ ~worker.is_paused
           /\ worker.accumulated_secs = 0 /\ TickPos(AtStep) = 0
        \/ /\ hist.arg = 0
           /\ Emitted = <<"TrackError">>
           /\ AtStep = LeaveLoop(hist.before)
           /\ worker.mode = "Idle" /\ worker.play_start = None

\* a Play that opens, consumed while paused in the middle of a track
C15_Witness ==
    /\ hist.cmd = "Play" /\ hist.arg = 1
    /\ hist.before.mode = "Loop" /\ hist.before.is_paused
    /\ hist.before.accumulated_secs > 0
    /\ worker.mode = "Loop" /\ ~worker.is_paused /\ TickPos(AtStep) = 0

\* C16: Pause changes the thread and sends exactly one Paused only when it is playing;
\* Resume changes the thread and sends exactly one Playing only when it is paused; in
\* every other state, idle included, they send nothing and leave the thread and its
\* position counter as they were.
C16_PauseResume ==
    /\ hist.cmd = "Pause" =>
          IF hist.before.mode = "Loop" /\ ~hist.before.is_paused
          THEN Emitted = <<"Paused">> /\ worker.mode = "Loop" /\ worker.is_paused
          ELSE Emitted = <<>> /\ AtStep = hist.before
    /\ hist.cmd = "Resume" =>
          IF hist.before.mode = "Loop" /\ hist.before.is_paused
          THEN Emitted = <<"Playing">> /\ worker.mode = "Loop" /\ ~worker.is_paused
          ELSE Emitted = <<>> /\ AtStep = hist.before
    /\ hist.cmd \in {"Pause", "Resume"} => TickPos(AtStep) = TickPos(hist.before)

\* a second Pause in the middle of a paused track
C16_Witness ==
    /\ hist.cmd = "Pause"
    /\ hist.before.mode = "Loop" /\ hist.before.is_paused
    /\ hist.before.accumulated_secs > 0
    /\ Emitted = <<>> /\ AtStep = hist.before

\* C17: a Stop consumed in any state leaves the thread idle with no sink and sends
\* exactly one Stopped; from then on, until a Play opens a track, the thread stays idle
\* and sends neither PositionUpdate nor TrackFinished.
C17_Stop ==
    /\ hist.cmd = "Stop" =>
          /\ Emitted = <<"Stopped">>
          /\ worker.mode = "Idle" /\ worker.play_start = None
    /\ hist.after_stop =>
          /\ worker.mode = "Idle"
          /\ hist.kind \notin {"PositionUpdate", "TrackFinished"}

\* a tick that would have found the sink empty, after the track was stopped
C17_Witness ==
    /\ hist.after_stop
    /\ hist.cmd = "Tick" /\ hist.arg = 1
    /\ worker.now > 0
    /\ Emitted = <<>> /\ worker.mode = "Idle"

\* C18: a tick in the loop sends exactly one event: TrackFinished, leaving the thread
\* idle, exactly when the sink is empty and the thread is not paused; otherwise a
\* PositionUpdate whose position lies between 0 and the duration, the thread unchanged.
\* A tick while idle sends nothing.  The thread never sends a command.
C18_Tick ==
    hist.cmd = "Tick" =>
        IF hist.before.mode = "Loop"
        THEN IF hist.arg = 1 /\ ~hist.before.is_paused
             THEN Emitted = <<"TrackFinished">> /\ worker.mode = "Idle" /\ sent = <<>>
             ELSE /\ Emitted = <<"PositionUpdate">>
                  /\ IsSome(hist.last_pos)
                  /\ 0 <= Unwrap(hist.last_pos)
                  /\ Unwrap(hist.last_pos) <= hist.before.duration
                  /\ AtStep = hist.before
        ELSE Emitted = <<>> /\ AtStep = hist.before

\* a tick after the clock has run past the end of the track while the sink still has data
C18_Witness ==
    /\ hist.cmd = "Tick" /\ hist.arg = 0
    /\ hist.before.mode = "Loop" /\ ~hist.before.is_paused
    /\ hist.before.duration > 0
    /\ TickPos(hist.before) > hist.before.duration
    /\ Emitted = <<"PositionUpdate">>
    /\ hist.last_pos = Some(hist.before.duration)

\* C19: every command the thread consumes has the effect of its transition rule unless it
\* is a Pause when not playing, a Resume when not paused or a Seek the sink rejects: after
\* SetVolume(v) the volume the thread plays at is v, after an accepted Seek(s) its position
\* counter stands at s, in the loop and outside it.
C19_NoSilentDrop ==
    /\ hist.cmd = "SetVolume" => AtStep.volume = hist.arg
    /\ (hist.cmd = "Seek" /\ hist.arg >= 0) => TickPos(AtStep) = hist.arg

\* C29: a Seek(s) the sink accepts sets the position counter to s and restarts the clock
\* only if the thread is not paused, so that a paused thread stands at exactly s while
\* time passes; a Seek the sink rejects leaves the counter, the clock and the paused flag
\* as they were.  Neither sends an event nor changes between playing and paused.
C29_SeekBestEffort ==
    (hist.cmd = "Seek" /\ hist.before.mode = "Loop") =>
        /\ Emitted = <<>>
        /\ AtStep.mode = "Loop"
        /\ AtStep.is_paused = hist.before.is_paused
        /\ IF hist.arg >= 0
           THEN /\ AtStep.accumulated_secs = hist.arg
                /\ TickPos(AtStep) = hist.arg
                /\ AtStep.play_start = IF hist.before.is_paused THEN None
                                       ELSE Some(hist.before.now)
                /\ hist.before.is_paused => TickPos(worker) = hist.arg
           ELSE AtStep = hist.before

\* an accepted Seek while paused, away from where the pause stood, and time has passed
C29_Witness ==
    /\ hist.cmd = "Seek" /\ hist.arg = 2
    /\ hist.before.mode = "Loop" /\ hist.before.is_paused
    /\ hist.before.accumulated_secs = 1
    /\ worker.now > hist.before.now
    /\ TickPos(worker) = 2

\* C30: while the thread is paused with no Seek, every PositionUpdate carries the position
\* the clock stood at when the Pause took effect; after the Resume a PositionUpdate
\* carries that position plus the time since the Resume, the time spent paused left out
\* (both capped at the duration, as every PositionUpdate is).
C30_PausedFrozen ==
    (hist.kind = "PositionUpdate" /\ IsSome(hist.paused_at)) =>
        LET at == Unwrap(hist.paused_at)
            since == IF IsSome(hist.resumed_at)
                     THEN hist.before.now - Unwrap(hist.resumed_at)
                     ELSE 0
        IN  /\ hist.before.is_paused <=> hist.resumed_at = None
            /\ hist.last_pos = Some(Min(at + since, hist.before.duration))

\* paused after one second, resumed a second later, and reported one second after that
C30_Witness ==
    /\ hist.kind = "PositionUpdate"
    /\ hist.paused_at = Some(1)
    /\ IsSome(hist.resumed_at)
    /\ Unwrap(hist.resumed_at) >= 2
    /\ hist.before.now = Unwrap(hist.resumed_at) + 1
    /\ hist.last_pos = Some(2)

---------------------------------------------------------------------------
(* Queue navigation (SpecNav) *)

\* a play_next step has been taken
Advanced == hist.kind \in {"NextTrack", "TrackFinished"}

\* the one command a step sends when it starts the queue entry at position i
PlayOfSlot(i) == <<Cmd("Play", library[hist.queue.tracks[i + 1] + 1])>>

\* C11: under Repeat-One with a current position i, NextTrack and TrackFinished leave the
\* current position at i, send exactly one Play for the path of queue entry i, set the
\* state to Playing and the position to 0, whatever the shuffle setting.
C11_RepeatOne ==
    (Advanced /\ hist.playback.repeat = "One" /\ IsSome(hist.queue.current_index)) =>
        LET i == Unwrap(hist.queue.current_index)
        IN  /\ queue.current_index = Some(i)
            /\ sent = PlayOfSlot(i)
            /\ playback.state = "Playing"
            /\ playback.position_secs = 0

\* Repeat-One with shuffle on, on the first of two entries, in the middle of a paused track
C11_Witness ==
    /\ hist.kind = "TrackFinished"
    /\ hist.playback.repeat = "One" /\ hist.playback.shuffle
    /\ hist.playback.state = "Paused" /\ hist.playback.position_secs = 4
    /\ Len(hist.queue.tracks) = 2 /\ hist.queue.current_index = Some(0)
    /\ hist.queue.tracks[1] # hist.queue.tracks[2]
    /\ queue.current_index = Some(0) /\ sent = PlayOfSlot(0) /\ playback.state = "Playing"

\* C12: with shuffle off and repeat other than One, play_next at position i moves to
\* i + 1 and sends Play when i + 1 is inside the queue; at the last position it wraps to
\* 0 under Repeat-All, and under Repeat-Off it sends no Play, sets the state to Stopped
\* and the position to 0 and leaves the current position on the last entry.
C12_Sequential ==
    (Advanced /\ ~hist.playback.shuffle /\ hist.playback.repeat # "One"
              /\ IsSome(hist.queue.current_index)) =>
        LET i == Unwrap(hist.queue.current_index)
            len == Len(hist.queue.tracks)
        IN  IF i + 1 < len
            THEN queue.current_index = Some(i + 1) /\ sent = PlayOfSlot(i + 1)
            ELSE IF hist.playback.repeat = "All"
            THEN queue.current_index = Some(0) /\ sent = PlayOfSlot(0)
            ELSE /\ sent = <<>>
                 /\ playback.state = "Stopped"
                 /\ playback.position_secs = 0
                 /\ queue.current_index = Some(i)

\* the end of a two-entry queue under Repeat-Off, reached while playing
C12_Witness ==
    /\ hist.kind = "TrackFinished"
    /\ ~hist.playback.shuffle /\ hist.playback.repeat = "Off"
    /\ hist.playback.state = "Playing" /\ hist.playback.position_secs = 4
    /\ Len(hist.queue.tracks) = 2 /\ hist.queue.current_index = Some(1)
    /\ sent = <<>> /\ playback.state = "Stopped" /\ queue.current_index = Some(1)

\* C13: PrevTrack with a current entry and the position past 3 seconds sends Play for the
\* same position again (current position unchanged, position 0); otherwise it moves to
\* the position before, or from position 0 to the last entry under Repeat-All and stays on
\* 0 under the other modes, and sends Play for the entry it ends on.
C13_Previous ==
    (hist.kind = "PrevTrack" /\ IsSome(hist.queue.current_index)) =>
        LET i == Unwrap(hist.queue.current_index)
            len == Len(hist.queue.tracks)
            j == IF hist.playback.position_secs > 3 THEN i
                 ELSE IF i > 0 THEN i - 1
                 ELSE IF hist.playback.repeat = "All" THEN len - 1 ELSE 0
        IN  /\ queue.current_index = Some(j)
            /\ sent = PlayOfSlot(j)
            /\ playback.position_secs = 0

\* exactly on the three-second mark of the second entry: the step goes back to the first
C13_Witness ==
    /\ hist.kind = "PrevTrack"
    /\ hist.playback.position_secs = 3
    /\ Len(hist.queue.tracks) = 2 /\ hist.queue.current_index = Some(1)
    /\ hist.queue.tracks[1] # hist.queue.tracks[2]
    /\ queue.current_index = Some(0) /\ sent = PlayOfSlot(0)

\* C14: with shuffle on, repeat other than One and a non-empty queue, play_next sets the
\* current position to the drawn position, which lies inside the queue, and sends Play
\* for it; before the step every position, the current one included, can be drawn; the
\* step never leaves the state Stopped, not even from the last entry.
C14_Shuffle ==
    /\ (Advanced /\ hist.playback.shuffle /\ hist.playback.repeat # "One"
                 /\ hist.queue.tracks # <<>>) =>
          /\ hist.arg \in 0..(Len(hist.queue.tracks) - 1)
          /\ queue.current_index = Some(hist.arg)
          /\ sent = PlayOfSlot(hist.arg)
          /\ playback.state = "Playing"
    /\ (hist.kind = "init" /\ playback.shuffle /\ playback.repeat # "One"
                           /\ queue.tracks # <<>>) =>
          \A k \in 0..(Len(queue.tracks) - 1) :
              /\ ENABLED (NavNextTrack(k) /\ queue'.current_index = Some(k))
              /\ ENABLED (NavTrackFinished(k) /\ queue'.current_index = Some(k))

\* the draw lands on the current position, the last of the queue, under Repeat-Off
C14_Witness ==
    /\ hist.kind = "NextTrack"
    /\ hist.playback.shuffle /\ hist.playback.repeat = "Off"
    /\ Len(hist.queue.tracks) = 2 /\ hist.queue.current_index = Some(1)
    /\ hist.arg = 1
    /\ queue.current_index = Some(1) /\ sent = PlayOfSlot(1) /\ playback.state = "Playing"

\* C21: after the reducer has handled a TrackError with shuffle off, in every repeat mode,
\* the process is alive and the current position is on the entry after the one that
\* failed, with a Play sent for it; from the last entry it is on entry 0 under Repeat-All,
\* and under Repeat-Off nothing is sent and the state is Stopped.
C21_TrackErrorAdvances ==
    (hist.kind = "TrackError" /\ ~hist.playback.shuffle /\ IsSome(hist.queue.current_index)) =>
        LET i == Unwrap(hist.queue.current_index)
            len == Len(hist.queue.tracks)
        IN  /\ ~panicked
            /\ IF i + 1 < len
               THEN queue.current_index = Some(i + 1) /\ sent = PlayOfSlot(i + 1)
               ELSE CASE hist.playback.repeat = "All" ->
                             queue.current_index = Some(0) /\ sent = PlayOfSlot(0)
                      [] hist.playback.repeat = "Off" ->
                             sent = <<>> /\ playback.state = "Stopped"
                      [] OTHER -> TRUE

\* C24: whether the last PositionUpdate of a track is handled just before or just after
\* its TrackFinished, the reducer ends on the queue position and in the play state that
\* handling the TrackFinished alone leads to: the position has advanced exactly once.
C24_EitherOrder ==
    hist.kind \in {"PositionUpdate, TrackFinished", "TrackFinished, PositionUpdate"} =>
        LET start == [AppState EXCEPT !.library = hist.library, !.queue = hist.queue,
                                      !.playlists = hist.playlists, !.playback = hist.playback]
            once == play_next(start, hist.arg)
        IN  /\ queue.current_index = once.queue.current_index
            /\ playback.state = once.playback.state

\* the last entry under Repeat-Off ends while playing; the stale position arrives after
\* the reducer has stopped
C24_Witness ==
    /\ hist.kind = "TrackFinished, PositionUpdate"
    /\ ~hist.playback.shuffle /\ hist.playback.repeat = "Off"
    /\ hist.playback.state = "Playing"
    /\ Len(hist.queue.tracks) = 2 /\ hist.queue.current_index = Some(1)
    /\ playback.position_secs = 4 /\ playback.state = "Stopped"
    /\ queue.current_index = Some(1)

---------------------------------------------------------------------------
(* The empty library (SpecZero) *)

\* C27: once replace_library has installed an empty snapshot the queue and every playlist
\* are empty, there is no current position and the queue cursors are 0; every action
\* handled afterwards (NextTrack, PrevTrack, TrackFinished, PauseResume, PlayTrack,
\* PlayQueueIndex, RemoveFromQueue, SetQueueSelection, Seek) leaves the process alive and
\* that state in place, and sends no Play.
C27_ZeroTracks ==
    (hist.kind \in {"LibraryReady", "ZeroTracks"} /\ library = <<>>) =>
        /\ ~panicked
        /\ queue = QueueDefault
        /\ \A i \in DOMAIN playlists : playlists[i].tracks = <<>>
        /\ Len(playlists) = Len(hist.playlists)
        /\ \A i \in DOMAIN sent : sent[i].cmd # "Play"

\* a playing queue with its cursors on the second row is emptied, then PlayQueueIndex is
\* asked for the row that was current
C27_Witness ==
    /\ hist.kind = "ZeroTracks" /\ hist.arg = 1
    /\ hist.library # <<>>
    /\ Len(hist.queue.tracks) = 2 /\ hist.queue.current_index = Some(1)
    /\ hist.queue.selected_index = 1
    /\ hist.playback.state = "Playing"
    /\ library = <<>> /\ queue = QueueDefault /\ sent = <<>> /\ ~panicked

---------------------------------------------------------------------------
(* The saved state across runs (SpecRestart) *)

\* C25: when the startup scan completes and the saved state is restored, every saved
\* playlist is a playlist of the same position and name; its indices are all inside the
\* library and refer, in saved order, to the saved paths the snapshot holds; the saved
\* paths the snapshot does not hold are left out, and nothing panics.
C25_PlaylistLoad ==
    (hist.kind = "ScanFinished" /\ IsSome(disk.previous)) =>
        LET saved == Unwrap(disk.previous).playlists
        IN  /\ ~panicked
            /\ \A i \in DOMAIN saved :
                  /\ i \in DOMAIN playlists
                  /\ playlists[i].name = saved[i].name
                  /\ InRange(playlists[i].tracks, library)
                  /\ PathsOf(playlists[i].tracks, library) = Surviving(saved[i].tracks, library)

\* a saved playlist <<3, 1>> restored against a snapshot that holds path 1 and not path 3
C25_Witness ==
    /\ hist.kind = "ScanFinished"
    /\ IsSome(disk.previous)
    /\ Unwrap(disk.previous).playlists[1].tracks = <<3, 1>>
    /\ library = <<1, 2>>
    /\ playlists = <<[name |-> "Bookmarks", tracks |-> <<0>>]>>

\* C26: once the user has quit, the state file holds every playlist the previous run
\* saved and this run did not edit, under the same name, with the saved paths that are
\* still in the music directory, in the saved order.
C26_PlaylistsSurvive ==
    (flags.should_quit /\ IsSome(disk.previous)) =>
        /\ IsSome(disk.state_json)
        /\ \A i \in DOMAIN Unwrap(disk.previous).playlists :
              LET pl == Unwrap(disk.previous).playlists[i]
              IN  pl.name \notin disk.edited =>
                      \E j \in DOMAIN Unwrap(disk.state_json).playlists :
                          /\ Unwrap(disk.state_json).playlists[j].name = pl.name
                          /\ Unwrap(disk.state_json).playlists[j].tracks
                               = Surviving(pl.tracks, disk.music)

---------------------------------------------------------------------------
(* The decode chain (SpecDecode) *)

\* C28: the stages run in the order auto-detect, extension-directed, fallback, and stop
\* at the first that succeeds, whose source is the result; an error is returned exactly
\* when all three fail, and then no sink was created and the thread is idle after
\* TrackError; the fallback succeeds only with at least one decoded sample.
C28_DecodeChain ==
    IsSome(hist.opened) =>
        LET f == Unwrap(hist.opened).file
            r == Unwrap(hist.opened).result
            auto_ok == f.opens /\ f.auto
            ext_ok == f.opens /\ f.directed /\ f.ext \in {"mp3", "MP3", "flac", "wav", "ogg"}
            fallback_ok == f.opens /\ f.probe /\ f.track /\ f.codec /\ f.samples > 0
        IN  /\ ~panicked
            /\ r.ok <=> (auto_ok \/ ext_ok \/ fallback_ok)
            /\ r.stage = IF auto_ok THEN <<"auto">>
                         ELSE IF ext_ok THEN <<"auto", "extension">>
                         ELSE <<"auto", "extension", "fallback">>
            /\ r.ok => r.sinks = 1 /\ hist.kind = "Playing" /\ worker.mode = "Loop"
            /\ (r.ok /\ Len(r.stage) < 3) => r.duration = f.duration
            /\ ~r.ok => r.sinks = 0 /\ hist.kind = "TrackError" /\ worker.mode = "Idle"
            /\ (r.ok /\ Len(r.stage) = 3) => f.samples > 0

\* a thread that was playing is handed a file that nothing can open: symphonia probes
\* it, finds a track and a codec, and decodes no sample
C28_Witness ==
    /\ IsSome(hist.opened)
    /\ hist.before.mode = "Loop"
    /\ hist.kind = "TrackError"
    /\ LET f == Unwrap(hist.opened).file
       IN  f.opens /\ f.probe /\ f.track /\ f.codec /\ f.samples = 0

---------------------------------------------------------------------------
(* The library scans (SpecWatch) *)

C23_Debounce ==
    IsSome(watcher.last_fs) =>
        /\ hist.kind = "Rescan" => watcher.now - Unwrap(watcher.last_fs) >= Debounce
        /\ watcher.rescans <= 1

\* C31: the debounce thread has started a rescan only if a watch event was seen, and
\* then only one since the last watch event: without a watch event since it was
\* spawned, or since its previous rescan, it does not scan.
C31_RescanNeedsEvent ==
    watcher.rescans > 0 => IsSome(watcher.last_fs) /\ watcher.rescans = 1

---------------------------------------------------------------------------
(* A queue of files that do not decode (SpecFail) *)

\* C32: when no track of the queue decodes, the exchange of Play and TrackError comes to
\* an end: from some point on the reducer is Stopped and no Play is on the command
\* channel.
C32_FailuresTerminate ==
    <>[](playback.state = "Stopped" /\ bus.cmd_rx = <<>> /\ bus.event_rx = <<>>)

---------------------------------------------------------------------------
(* The reducer and the playback thread together (SpecSystem) *)

\* C20: when the thread has consumed the last Play the reducer sent, it plays that track,
\* or is idle if the track did not open; and when the reducer handles the Playing or
\* TrackError that answers an earlier Play, one it has sent another Play after, its queue
\* position stays where it was and it sends no command.
C20_PlaySupersedes ==
    /\ (hist.kind = "Recv" /\ hist.cmd = "Play" /\ hist.arg = bus.plays) =>
          \/ worker.mode = "Loop" /\ bus.loaded = hist.arg
          \/ worker.mode = "Idle" /\ bus.loaded = 0
    /\ (hist.kind \in {"Playing", "TrackError"} /\ hist.arg = 1) =>
          /\ queue.current_index = hist.queue.current_index
          /\ sent = <<>>

\* C33: whenever the thread holds a sink and the command channel is empty, the volume of
\* the sink is the reducer's playback.volume.
C33_VolumeCarried ==
    (worker.mode = "Loop" /\ bus.cmd_rx = <<>>) => worker.volume = playback.volume

\* the play state the thread is in: Idle without a sink, else Paused or Playing
WorkerPlayState(w) ==
    IF w.mode = "Idle" THEN "Stopped" ELSE IF w.is_paused THEN "Paused" ELSE "Playing"

\* C34: whenever the command channel and the event bus are both empty, the reducer's play
\* state is the state of the thread.
C34_AgreeAtQuiescence ==
    (bus.cmd_rx = <<>> /\ bus.event_rx = <<>>) => playback.state = WorkerPlayState(worker)

\* C38: when the reducer handles a TrackFinished of a track it has already replaced by
\* sending another Play, it does not advance the queue again: the current index stays and
\* no command is sent.
C38_StaleFinishIgnored ==
    (hist.kind = "TrackFinished" /\ hist.arg = 1) =>
        /\ queue.current_index = hist.queue.current_index
        /\ sent = <<>>

\* C39: when the reducer handles a PositionUpdate of a track it has already replaced by
\* sending another Play, position_secs and duration_secs stay as they were.
C39_StalePositionIgnored ==
    (hist.kind = "PositionUpdate" /\ hist.arg = 1) =>
        /\ playback.position_secs = hist.playback.position_secs
        /\ playback.duration_secs = hist.playback.duration_secs


----------------------------------------------------------------------------
(* Properties of the queue (SpecQueue) *)

\* C35: in every state of the reducer queue.current_index is None or designates an entry
\* of the queue, whatever sequence of AddToQueue, ClearQueue, RemoveFromQueue,
\* PlayQueueIndex, NextTrack, PrevTrack, TrackFinished and library replacements led to it.
C35_CurrentInRange ==
    ~panicked =>
        (IsSome(queue.current_index) => Unwrap(queue.current_index) < Len(queue.tracks))

\* the last entry of the queue is the current one and is playing, in a library that a
\* rescan made smaller
C35_Witness ==
    /\ ~panicked
    /\ hist.kind = "Event"
    /\ queue.tracks # <<>>
    /\ queue.current_index = Some(Len(queue.tracks) - 1)
    /\ Len(library) < NPaths
    /\ playback.state = "Playing"


----------------------------------------------------------------------------
(* Properties of one action on its own (SpecOnce) *)

\* C37: RemoveFromQueue(i) with i inside the queue removes exactly entry i, keeps the
\* others in order and sends nothing.  When i is not the current index the current index
\* designates the same track as before, one lower exactly when i was before it; when i is
\* the current index, the index now designates the entry that followed or, if there is
\* none, the new last entry; when the queue becomes empty the current index is None.
\* With i past the end nothing changes.
C37_RemoveFromQueue ==
    hist.kind = "RemoveFromQueue" =>
        LET old == hist.queue
            i == hist.arg
            n == Len(old.tracks)
            ci == old.current_index
            now == queue.current_index
        IN  /\ ~panicked
            /\ sent = <<>>
            /\ library = hist.library
            /\ playlists = hist.playlists
            /\ playback = hist.playback
            /\ IF i < n
               THEN /\ Len(queue.tracks) = n - 1
                    /\ \A j \in 1..(n - 1) :
                          queue.tracks[j] = old.tracks[IF j <= i THEN j ELSE j + 1]
                    /\ n = 1 => now = None
                    /\ (n > 1 /\ ci = None) => now = None
                    /\ (n > 1 /\ IsSome(ci) /\ Unwrap(ci) # i) =>
                          /\ IsSome(now)
                          /\ Unwrap(now) = (IF i < Unwrap(ci) THEN Unwrap(ci) - 1 ELSE Unwrap(ci))
                          /\ queue.tracks[Unwrap(now) + 1] = old.tracks[Unwrap(ci) + 1]
                    /\ (n > 1 /\ ci = Some(i)) =>
                          /\ IsSome(now)
                          /\ Unwrap(now) < n - 1
                          /\ Unwrap(now) = (IF i + 1 < n THEN i ELSE n - 2)
               ELSE queue = old

\* the middle entry of a queue of three distinct tracks was removed while the last one
\* was the current one
C37_Witness ==
    /\ hist.kind = "RemoveFromQueue"
    /\ hist.arg = 1
    /\ Len(hist.queue.tracks) = 3
    /\ hist.queue.tracks[1] # hist.queue.tracks[3]
    /\ hist.queue.current_index = Some(2)
    /\ queue.current_index = Some(1)

\* C40: PauseResume acts on the reducer's own state.  Playing: exactly one Pause is sent
\* and the state becomes Paused.  Paused: exactly one Resume is sent and the state becomes
\* Playing.  Stopped with a current queue entry: Play for that entry is sent, the
\* position is 0 and the state is Playing.  Stopped with no current entry: nothing is
\* sent and nothing changes.  The queue and the current index never change.
C40_PauseResume ==
    hist.kind = "PauseResume" =>
        LET old == hist.playback
            ci == hist.queue.current_index
        IN  /\ ~panicked
            /\ queue = hist.queue
            /\ library = hist.library
            /\ old.state = "Playing" =>
                  /\ sent = <<Cmd("Pause", 0)>>
                  /\ playback = [old EXCEPT !.state = "Paused"]
            /\ old.state = "Paused" =>
                  /\ sent = <<Cmd("Resume", 0)>>
                  /\ playback = [old EXCEPT !.state = "Playing"]
            /\ (old.state = "Stopped" /\ IsSome(ci)) =>
                  /\ sent = <<Cmd("Play", library[hist.queue.tracks[Unwrap(ci) + 1] + 1])>>
                  /\ playback.state = "Playing"
                  /\ playback.position_secs = 0
            /\ (old.state = "Stopped" /\ ci = None) =>
                  /\ sent = <<>>
                  /\ playback = old

\* stopped 4 seconds into the second entry of the queue, then PauseResume
C40_Witness ==
    /\ hist.kind = "PauseResume"
    /\ hist.playback.state = "Stopped"
    /\ hist.playback.position_secs = 4
    /\ hist.queue.current_index = Some(1)
    /\ playback.state = "Playing"
    /\ sent # <<>>

=============================================================================
